---- MODULE Spec2Model ----
(***************************************************************************)
(* Staged creator-discovery pipeline (functions/): the Firestore-backed     *)
(* status and stage documents, the three stage executors and the           *)
(* orchestrator that chains them.                                          *)
(***************************************************************************)
EXTENDS Integers, Sequences, FiniteSets, TLC

(***************************************************************************)
(* Bounds of the model                                                     *)
(***************************************************************************)
\* number of distinct creator profiles a search can return
MaxProfiles == 2
\* longest caller-supplied completed_stages list explored for the pure helper
MaxLen == 3
\* number of entry-point invocations made one after the other on the pipeline id
MaxCalls == 2
MaxClock == 2
MaxRuns == 2
MaxHits == 2
\* nesting depth of the debug payloads handed to sanitize_debug_output
MaxDepth == 3

(***************************************************************************)
(* Constants of the program                                                *)
(***************************************************************************)
NONE == "None"

SEARCH == "SEARCH"
BRIGHTDATA == "BRIGHTDATA"
LLM_FIT == "LLM_FIT"

STAGE_ORDER == <<"SEARCH", "BRIGHTDATA", "LLM_FIT">>

_PROGRESS_STEP == 100 \div Len(STAGE_ORDER)

stage_sequence == <<"SEARCH", "BRIGHTDATA", "LLM_FIT">>

StageNames == {SEARCH, BRIGHTDATA, LLM_FIT}

\* rerank_stage.execute_rerank_stage: stage_name, a stage outside STAGE_ORDER
RERANK == "RERANK"

\* stages that have a stage document
DocStages == StageNames \cup {RERANK}

\* the one pipeline id the requests of this model name
PID == "p"

(***************************************************************************)
(* str.upper() on the stage-name spellings the model draws from            *)
(***************************************************************************)
Spellings == {"SEARCH", "search", "BRIGHTDATA", "brightdata",
              "LLM_FIT", "llm_fit", "RERANK", "rerank", "CUSTOM", "custom"}

Upper(name) ==
    CASE name \in {"SEARCH", "search"} -> "SEARCH"
      [] name \in {"BRIGHTDATA", "brightdata"} -> "BRIGHTDATA"
      [] name \in {"LLM_FIT", "llm_fit"} -> "LLM_FIT"
      [] name \in {"RERANK", "rerank"} -> "RERANK"
      [] name \in {"CUSTOM", "custom"} -> "CUSTOM"
      [] OTHER -> name

\* str.strip() on the pipeline ids the model draws from
Strip(s) ==
    CASE s = " " -> ""
      [] s = "q2 " -> "q2"
      [] s = " brief " -> "brief"
      [] OTHER -> s

(***************************************************************************)
(* Sequence helpers                                                        *)
(***************************************************************************)
Range(s) == {s[i] : i \in 1..Len(s)}

Contains(s, x) == \E i \in 1..Len(s) : s[i] = x

\* list.index(x), zero based; Len(s) when absent (callers test membership first)
IndexOf(s, x) ==
    IF Contains(s, x) THEN (CHOOSE i \in 1..Len(s) : s[i] = x /\ \A j \in 1..(i - 1) : s[j] # x) - 1
    ELSE Len(s)

Max(a, b) == IF a >= b THEN a ELSE b
Min(a, b) == IF a <= b THEN a ELSE b

(***************************************************************************)
(* stage_utils.normalize_completed_stages                                  *)
(***************************************************************************)
\* order_map.get(item, len(order_map))
OrderKey(item) == IndexOf(STAGE_ORDER, item)

RECURSIVE DedupUpper_KeepAll(_, _)
\* variant: every entry is upper-cased and kept, seen or not
DedupUpper_KeepAll(existing, acc) ==
    IF existing = <<>> THEN acc
    ELSE DedupUpper_KeepAll(Tail(existing), Append(acc, Upper(Head(existing))))

RECURSIVE DedupUpper(_, _)
\* the loop over `existing`: upper-case, keep the first occurrence of each
DedupUpper(existing, acc) ==
    IF existing = <<>> THEN acc
    ELSE LET upper == Upper(Head(existing))
         IN DedupUpper(Tail(existing),
                       IF Contains(acc, upper) THEN acc ELSE Append(acc, upper))

RECURSIVE InsertStable(_, _)
\* insert x after every element whose key is <= key(x)
InsertStable(sorted, x) ==
    IF sorted = <<>> THEN <<x>>
    ELSE IF OrderKey(Head(sorted)) <= OrderKey(x)
         THEN <<Head(sorted)>> \o InsertStable(Tail(sorted), x)
         ELSE <<x>> \o sorted

RECURSIVE SortByOrder(_, _)
\* list.sort(key=order_map.get(item, len(order_map))): a stable sort
SortByOrder(items, acc) ==
    IF items = <<>> THEN acc
    ELSE SortByOrder(Tail(items), InsertStable(acc, Head(items)))

normalize_completed_stages(existing, stage) ==
    LET normalized == DedupUpper(existing, <<>>)
        withStage == IF stage # NONE /\ stage # "" /\ ~Contains(normalized, Upper(stage))
                     THEN Append(normalized, Upper(stage))
                     ELSE normalized
    IN SortByOrder(withStage, <<>>)

ensure_completed_stages(completed, stage) == normalize_completed_stages(completed, stage)

\* a / b rounded to the nearest integer (a, b positive)
RoundDiv(a, b) == (2 * a + b) \div (2 * b)

(***************************************************************************)
(* stage_utils.get_stage_progress                                          *)
(***************************************************************************)
\* variant: the percentage is rounded per stage instead of stepped
get_stage_progress_Rounded(stage_name) ==
    LET upper == Upper(stage_name)
    IN IF ~Contains(STAGE_ORDER, upper) THEN 0
       ELSE RoundDiv(100 * (IndexOf(STAGE_ORDER, upper) + 1), Len(STAGE_ORDER))

get_stage_progress(stage_name) ==
    LET upper == Upper(stage_name)
    IN IF ~Contains(STAGE_ORDER, upper) THEN 0
       ELSE LET idx == IndexOf(STAGE_ORDER, upper)
            IN IF idx = Len(STAGE_ORDER) - 1 THEN 100
               ELSE Min(100, (idx + 1) * _PROGRESS_STEP)

(***************************************************************************)
(* Documents of the search_pipeline_runs collection                        *)
(*   a document is a record; `exists` tells whether the snapshot exists    *)
(*   and `fields` which keys it holds (doc_ref.update merges keys, so a    *)
(*   status document first written by error_pipeline_status lacks the      *)
(*   keys only create/update write)                                        *)
(***************************************************************************)
NoStatusDoc ==
    [exists |-> FALSE, fields |-> {}, status |-> NONE, current_stage |-> NONE,
     completed_stages |-> <<>>, overall_progress |-> 0, error_message |-> NONE,
     userId |-> NONE]

NoStageDoc ==
    [exists |-> FALSE, fields |-> {}, stage |-> NONE, status |-> NONE,
     profiles |-> <<>>, success_keys |-> {}, error_message |-> NONE, userId |-> NONE]

\* stage_utils._set_document: update (merge) when the snapshot exists, else set
_set_document(doc, payload) ==
    [f \in DOMAIN doc |->
        IF f = "exists" THEN TRUE
        ELSE IF f = "fields"
             THEN (IF doc.exists THEN doc.fields ELSE {}) \cup DOMAIN payload
        ELSE IF f \in DOMAIN payload THEN payload[f]
        ELSE doc[f]]

create_pipeline_status(doc, user_id) ==
    _set_document(doc,
        [status |-> "running", current_stage |-> NONE, completed_stages |-> <<>>,
         overall_progress |-> 0, error_message |-> NONE, userId |-> user_id])

update_pipeline_status(doc, user_id, current_stage, progress, completed_stages) ==
    _set_document(doc,
        [status |-> "running", current_stage |-> current_stage,
         completed_stages |-> normalize_completed_stages(completed_stages, current_stage),
         overall_progress |-> Max(0, Min(progress, 100)), userId |-> user_id])

complete_pipeline_status(doc, user_id, final_progress) ==
    _set_document(doc,
        [status |-> "completed", current_stage |-> NONE,
         overall_progress |-> Max(0, Min(final_progress, 100)), userId |-> user_id])

\* progress = -1 stands for the default progress=None (key not written)
error_pipeline_status(doc, user_id, error_message, progress) ==
    IF progress = -1
    THEN _set_document(doc,
            [status |-> "error", current_stage |-> NONE,
             error_message |-> error_message, userId |-> user_id])
    ELSE _set_document(doc,
            [status |-> "error", current_stage |-> NONE,
             error_message |-> error_message, userId |-> user_id,
             overall_progress |-> Max(0, Min(progress, 100))])

\* execute_brightdata_stage: the success_keys of the run reach the stage
\* document only inside the debug payload, which is empty unless debug_mode
PersistedSuccessKeys(debug_mode, success_keys) ==
    IF debug_mode THEN success_keys ELSE {}

save_stage_document(doc, stage, user_id, profiles, status, success_keys, error_message) ==
    _set_document(doc,
        [stage |-> Upper(stage), status |-> status, profiles |-> profiles,
         success_keys |-> success_keys, error_message |-> error_message,
         userId |-> user_id])

(***************************************************************************)
(* State                                                                   *)
(***************************************************************************)
VARIABLES
    status_doc,        \* search_pipeline_runs/<PID>
    stage_docs,        \* search_pipeline_runs/<PID>_<STAGE>, one per stage
    search_ready,      \* search_stage._search_stage is not None
    brightdata_ready,  \* brightdata_stage._brightdata_stage is not None
    dataset_ready,     \* config: BrightData api key and a dataset id are set
    emulator,          \* os.getenv("FUNCTIONS_EMULATOR") == "true"
    reranker_enabled,  \* config.RERANKER_ENABLED
    rerank_ready,      \* rerank_stage._rerank_stage is not None
    caller,            \* request.auth, the requested debug_mode and the payload's user_id of the last call
    call,              \* entry point of the invocation in progress / last made
    pc,                \* position inside that invocation
    cur,               \* stage whose execute_*_stage is running
    req,               \* the stage payload
    stop_at,           \* pipeline_request.stop_at_stage
    completed,         \* the orchestrator's local `completed`
    profiles,          \* input profiles the stage loaded
    output,            \* output_profiles and success_keys of the stage's run
    raised,            \* the HttpsError propagating out of the stage
    result,            \* the StageExecutionResult returned last
    outcome,           \* what the caller of the last invocation received
    ops,               \* store and provider operations of this invocation
    ncalls,            \* entry-point invocations made so far
    norm,              \* completed-stages bookkeeping of one stage completion
    clock,             \* datetime.now(timezone.utc), in hours
    collection,        \* search_pipeline_runs as the sweeper sees it: pipeline_id and ttl per document
    sweep,             \* locals of the cleanup_expired_pipelines run in progress
    wr,                \* the _set_document call in flight: snapshot taken, write pending
    runs,              \* concurrent orchestrator runs: pipeline_id and the documents written
    srch,              \* locals of the WeaviateSearchStage.run in progress
    stg,               \* a stage's run() invoked on a persisted input: input and outputs
    enr,               \* locals of the BrightDataStage.run in progress, provider calls included
    san,               \* sanitize_debug_output applied to a debug payload, twice
    qe,                \* locals of the generate_queries call in progress, LLM responses included
    scoring,           \* score_profiles in progress: one _score_profile worker per document
    dbg                \* one enrichment result saved with debug on and with debug off

vars == <<status_doc, stage_docs, search_ready, brightdata_ready, dataset_ready,
          emulator, reranker_enabled, rerank_ready, caller, call, pc, cur, req, stop_at, completed, profiles, output,
          raised, result, outcome, ops, ncalls, norm, clock, collection, sweep, wr,
          runs, srch, stg, enr, san, qe, scoring, dbg>>

NoReq ==
    [pipeline_id |-> PID, user_id |-> NONE, input_stage |-> NONE,
     completed_stages |-> <<>>, business_fit_query |-> "", debug_mode |-> FALSE,
     query |-> "", top_k |-> 0]

NoCaller == [auth |-> NONE, debug_mode |-> FALSE, user_id |-> NONE]

NoOutput == [profiles |-> <<>>, success_keys |-> {}]

NoRaise == [code |-> NONE, message |-> NONE]

NoResult == [stage |-> NONE, status |-> NONE, completed_stages |-> <<>>, profiles |-> <<>>]

\* profile lists a search can return: ids in rank order
SearchResults == {[i \in 1..n |-> i] : n \in 0..MaxProfiles}

Orderings(s) ==
    {t \in [1..Len(s) -> Range(s)] : \A i, j \in 1..Len(s) : i # j => t[i] # t[j]}

\* caller-supplied completed_stages of the standalone stage requests
CallerCompleted == {<<>>, <<"LLM_FIT", "search", "SEARCH">>}

\* request.auth: an authenticated uid, or None
AuthValues == {"uid-1", NONE}

\* request.data["user_id"]: what the caller puts into the payload
SuppliedUserIds == {"uid-x"}

NoNorm ==
    [pc |-> "off", existing |-> <<>>, stage |-> NONE, persisted |-> <<>>,
     returned |-> <<>>, again |-> <<>>]

(***************************************************************************)
(* Document ids of search_pipeline_runs.  An id is the sequence of its     *)
(* "_"-separated parts: "p_SEARCH" is <<"p", "SEARCH">>.                   *)
(***************************************************************************)
\* _collection_ref().document(pipeline_id)
pipeline_status_id(pipeline_id) == pipeline_id

\* f"{pipeline_id}_{stage.upper()}"
stage_document_id(pipeline_id, stage) == pipeline_id \o <<Upper(stage)>>

_TTL_HOURS == 1

\* pipelines and stages whose documents the sweeper model holds
SweepPipelines == {<<"p">>, <<"q">>}
SweepStages == {SEARCH}

DocIds ==
    {pipeline_status_id(p) : p \in SweepPipelines}
        \cup {stage_document_id(p, st) : p \in SweepPipelines, st \in SweepStages}

\* a missing pipeline_id field is the empty id
NoDoc == [exists |-> FALSE, pipeline_id |-> <<>>, ttl |-> 0]

NoSweep ==
    [pc |-> "idle", start_time |-> 0, pipeline_ids |-> <<>>, batch |-> {},
     failed |-> FALSE, written |-> FALSE]

NoWrite == [pc |-> "idle", doc |-> <<>>, pipeline_id |-> <<>>, exists |-> FALSE, ttl |-> 0]

SweeperVars == <<clock, collection, sweep, wr>>

\* no sweeper, no clock: the store as the pipeline model sees it
SweeperAtRest ==
    /\ clock = 0
    /\ collection = [d \in DocIds |-> NoDoc]
    /\ sweep = NoSweep
    /\ wr = NoWrite

RunIds == 1..MaxRuns

NoRun == [pc |-> "idle", pipeline_id |-> <<>>, written |-> {}]

RunsAtRest == runs = [r \in RunIds |-> NoRun]

NoSearch ==
    [pc |-> "off", top_n |-> 0, limit |-> 0, queries |-> <<>>, query |-> "", alphas |-> <<>>,
     results |-> <<>>, seen_ids |-> {}, final |-> <<>>,
     contributed |-> {}, attempted |-> {}, embedded |-> {}, degraded |-> FALSE]

NoStages ==
    [pc |-> "off", stage |-> NONE, top_k |-> 0, input |-> <<>>, success_keys |-> {},
     loaded |-> <<>>, replies |-> <<>>, responded |-> FALSE, scores |-> <<>>,
     first |-> <<>>, second |-> <<>>]

NoEnrich == [pc |-> "off"]

NoSanitize == [pc |-> "off"]

NoExpand == [pc |-> "off"]

NoScoring == [pc |-> "off"]

NoDebugPair == [pc |-> "off", profiles |-> <<>>, success_keys |-> {}, saved |-> <<>>, fit_input |-> <<>>, fit_output |-> <<>>]

\* the stages' run() methods modelled on their own
InnerVars == <<srch, stg, enr, san, qe, scoring, dbg>>

SearchAtRest == srch = NoSearch

StagesAtRest == stg = NoStages

EnrichAtRest == enr = NoEnrich

SanitizeAtRest == san = NoSanitize

ExpandAtRest == qe = NoExpand

ScoringAtRest == scoring = NoScoring

DebugPairAtRest == dbg = NoDebugPair

InnerAtRest == SearchAtRest /\ StagesAtRest /\ EnrichAtRest /\ SanitizeAtRest /\ ExpandAtRest /\ ScoringAtRest /\ DebugPairAtRest

\* state of the components modelled apart from the pipeline run
Aux == <<norm, SweeperVars, runs, InnerVars>>

Init ==
    /\ norm = NoNorm
    /\ SweeperAtRest
    /\ RunsAtRest
    /\ InnerAtRest
    /\ status_doc = NoStatusDoc
    /\ stage_docs = [s \in DocStages |-> NoStageDoc]
    /\ search_ready = FALSE
    /\ brightdata_ready = FALSE
    /\ dataset_ready \in BOOLEAN
    /\ emulator \in BOOLEAN
    /\ reranker_enabled = FALSE
    /\ rerank_ready = FALSE
    /\ caller = NoCaller
    /\ call = NONE
    /\ pc = "idle"
    /\ cur = NONE
    /\ req = NoReq
    /\ stop_at = NONE
    /\ completed = <<>>
    /\ profiles = <<>>
    /\ output = NoOutput
    /\ raised = NoRaise
    /\ result = NoResult
    /\ outcome = NONE
    /\ ops = <<>>
    /\ ncalls = 0

\* variant: the debug flag alone opens the gate
Rejected_DebugAlone(auth, debug_mode) == auth = NONE /\ ~debug_mode

\* the authentication gate shared by every callable entry point
Rejected(auth, debug_mode) == auth = NONE /\ ~(debug_mode /\ emulator)

UserIdOf(auth) == IF auth = NONE THEN "test-user" ELSE auth

\* everything a finished invocation leaves behind in its local variables
ResetLocals ==
    /\ cur' = NONE
    /\ req' = NoReq
    /\ stop_at' = NONE
    /\ completed' = <<>>
    /\ profiles' = <<>>
    /\ output' = NoOutput
    /\ raised' = NoRaise
    /\ result' = NoResult

Globals == <<search_ready, brightdata_ready, dataset_ready, emulator, reranker_enabled,
             rerank_ready>>

\* module globals and the invocation count, which only an entry point changes
Env == <<Globals, ncalls, caller, Aux>>

(***************************************************************************)
(* orchestrator.search_pipeline_orchestrator, up to the first stage call   *)
(***************************************************************************)
OrchestratorCall(auth, debug_mode, business_fit_query, stop) ==
    /\ pc = "idle"
    /\ ncalls < MaxCalls
    /\ ncalls' = ncalls + 1
    /\ UNCHANGED <<Globals, Aux, stage_docs>>
    /\ caller' = [auth |-> auth, debug_mode |-> debug_mode, user_id |-> NONE]
    /\ IF Rejected(auth, debug_mode)
       THEN /\ status_doc' = error_pipeline_status(status_doc, "unknown",
                                                   "Authentication required", -1)
            /\ call' = "orchestrator_rejected"
            /\ ops' = <<<<"status_error", NONE>>>>
            /\ outcome' = "UNAUTHENTICATED"
            /\ pc' = "idle"
            /\ ResetLocals
       ELSE IF business_fit_query = ""
       THEN \* SearchPipelineRequest(**payload_dict) raises ValidationError
            /\ call' = "orchestrator_rejected"
            /\ ops' = <<>>
            /\ outcome' = "INVALID_ARGUMENT"
            /\ pc' = "idle"
            /\ ResetLocals
            /\ UNCHANGED status_doc
       ELSE /\ status_doc' = create_pipeline_status(status_doc, UserIdOf(auth))
            /\ call' = "orchestrator"
            /\ ops' = <<<<"status_create", NONE>>>>
            /\ outcome' = NONE
            /\ completed' = <<>>
            /\ stop_at' = stop
            /\ cur' = SEARCH
            /\ req' = [pipeline_id |-> PID, user_id |-> UserIdOf(auth),
                       input_stage |-> NONE, completed_stages |-> <<>>,
                       business_fit_query |-> business_fit_query,
                       debug_mode |-> debug_mode, query |-> "", top_k |-> 0]
            /\ profiles' = <<>>
            /\ output' = NoOutput
            /\ raised' = NoRaise
            /\ result' = NoResult
            /\ pc' = "enter"

(***************************************************************************)
(* search_stage / brightdata_stage / llm_fit_stage callables, up to the    *)
(* call of execute_*_stage                                                 *)
(***************************************************************************)
StageCall(stage, auth, debug_mode, user_id, pipeline_id, completed_stages, input_stage, business_fit_query) ==
    /\ pc = "idle"
    /\ ncalls < MaxCalls
    /\ ncalls' = ncalls + 1
    /\ UNCHANGED <<Globals, Aux, stage_docs, status_doc>>
    /\ caller' = [auth |-> auth, debug_mode |-> debug_mode, user_id |-> user_id]
    /\ ops' = <<>>
    /\ IF Rejected(auth, debug_mode)
       THEN /\ call' = "stage_rejected"
            /\ outcome' = "UNAUTHENTICATED"
            /\ pc' = "idle"
            /\ ResetLocals
       ELSE IF pipeline_id = "" \/ (stage = LLM_FIT /\ business_fit_query = "")
       THEN \* the payload model raises ValidationError (min_length=1)
            /\ call' = "stage_rejected"
            /\ outcome' = "INVALID_ARGUMENT"
            /\ pc' = "idle"
            /\ ResetLocals
       ELSE /\ call' = "stage"
            /\ outcome' = NONE
            /\ completed' = <<>>
            /\ stop_at' = NONE
            /\ cur' = stage
            /\ req' = [pipeline_id |-> pipeline_id, user_id |-> UserIdOf(auth),
                       input_stage |-> IF stage = SEARCH THEN NONE ELSE input_stage,
                       completed_stages |-> completed_stages,
                       business_fit_query |->
                           IF stage = LLM_FIT THEN business_fit_query ELSE "",
                       debug_mode |-> debug_mode, query |-> "", top_k |-> 0]
            /\ profiles' = <<>>
            /\ output' = NoOutput
            /\ raised' = NoRaise
            /\ result' = NoResult
            /\ pc' = "enter"

(***************************************************************************)
(* rerank_stage callable, up to the call of execute_rerank_stage           *)
(***************************************************************************)
RerankCall(auth, debug_mode, user_id, pipeline_id, input_stage, query, top_k, completed_stages) ==
    /\ pc = "idle"
    /\ ncalls < MaxCalls
    /\ ncalls' = ncalls + 1
    /\ UNCHANGED <<Globals, Aux, stage_docs, status_doc>>
    /\ caller' = [auth |-> auth, debug_mode |-> debug_mode, user_id |-> user_id]
    /\ ops' = <<>>
    /\ IF Rejected(auth, debug_mode)
       THEN /\ call' = "stage_rejected"
            /\ outcome' = "UNAUTHENTICATED"
            /\ pc' = "idle"
            /\ ResetLocals
       ELSE IF pipeline_id = "" \/ query = "" \/ top_k < 1 \/ top_k > 1000
       THEN \* RerankStagePayload(**payload_dict) raises ValidationError
            /\ call' = "stage_rejected"
            /\ outcome' = "INVALID_ARGUMENT"
            /\ pc' = "idle"
            /\ ResetLocals
       ELSE /\ call' = "stage"
            /\ outcome' = NONE
            /\ completed' = <<>>
            /\ stop_at' = NONE
            /\ cur' = RERANK
            /\ req' = [pipeline_id |-> pipeline_id, user_id |-> UserIdOf(auth),
                       input_stage |-> input_stage,
                       completed_stages |-> completed_stages,
                       business_fit_query |-> "",
                       debug_mode |-> debug_mode, query |-> query, top_k |-> top_k]
            /\ profiles' = <<>>
            /\ output' = NoOutput
            /\ raised' = NoRaise
            /\ result' = NoResult
            /\ pc' = "enter"

(***************************************************************************)
(* execute_*_stage: the pipeline_id check and _ensure_stage_ready          *)
(*   init_ok is whether a client construction attempted now succeeds       *)
(***************************************************************************)
HttpsError(code, message) == [code |-> code, message |-> message]

\* the error _ensure_stage_ready ends in, NoRaise when the stage is ready
EnsureStageReady(stage, init_ok) ==
    CASE stage = SEARCH ->
            IF search_ready \/ init_ok THEN NoRaise
            ELSE HttpsError("FAILED_PRECONDITION", "Search engine is not initialized")
      [] stage = BRIGHTDATA ->
            IF ~dataset_ready
            THEN HttpsError("FAILED_PRECONDITION", "BrightData credentials are not configured")
            ELSE IF brightdata_ready \/ init_ok THEN NoRaise
            ELSE HttpsError("UNAVAILABLE", "BrightData client is not available")
      [] stage = RERANK ->
            IF ~reranker_enabled
            THEN HttpsError("FAILED_PRECONDITION", "Rerank client is not configured")
            ELSE IF rerank_ready \/ init_ok THEN NoRaise
            ELSE HttpsError("UNAVAILABLE", "Rerank client is not available")
      [] OTHER -> NoRaise  \* LLMFitStage(ProfileFitAssessor) only stores the factory

StageEnter(init_ok) ==
    /\ pc = "enter"
    /\ ops' = Append(ops, <<"invoke", cur>>)
    /\ UNCHANGED <<status_doc, stage_docs, dataset_ready, emulator, reranker_enabled, ncalls,
                   caller, Aux, call, cur, req, stop_at, completed, profiles, output, result,
                   outcome>>
    /\ IF Strip(req.pipeline_id) = ""
       THEN /\ raised' = HttpsError("INVALID_ARGUMENT", "pipeline_id is required")
            /\ pc' = "raised"
            /\ UNCHANGED <<search_ready, brightdata_ready, rerank_ready>>
       ELSE LET err == EnsureStageReady(cur, init_ok)
            IN /\ raised' = err
               /\ search_ready' = (search_ready \/ (cur = SEARCH /\ init_ok))
               /\ brightdata_ready' =
                      (brightdata_ready \/ (cur = BRIGHTDATA /\ dataset_ready /\ init_ok))
               /\ rerank_ready' =
                      (rerank_ready \/ (cur = RERANK /\ reranker_enabled /\ init_ok))
               /\ pc' = IF err # NoRaise THEN "raised"
                        ELSE IF cur = SEARCH THEN "run" ELSE "load"

(***************************************************************************)
(* _load_profiles and llm_fit_stage._apply_brightdata_filter               *)
(***************************************************************************)
Filter(seq, keep) == SelectSeq(seq, LAMBDA x : x \in keep)

_apply_brightdata_filter(docs, loaded) ==
    IF loaded = <<>> THEN loaded
    ELSE IF ~docs[BRIGHTDATA].exists THEN loaded
    ELSE LET success_keys == docs[BRIGHTDATA].success_keys
             filtered == Filter(loaded, success_keys)
         IN IF success_keys = {} THEN loaded
            ELSE IF filtered # <<>> THEN filtered ELSE loaded

\* variant: the stage takes the previous stage result the caller holds in memory
StageLoad_FromMemory ==
    /\ pc = "load"
    /\ cur \in {BRIGHTDATA, LLM_FIT, RERANK}
    /\ profiles' = result.profiles
    /\ pc' = IF result.profiles = <<>> THEN "save" ELSE "run"
    /\ UNCHANGED <<status_doc, stage_docs, Env, call, cur, req, stop_at,
                   completed, output, result, outcome, raised, ops>>

\* variant: a missing input document is recorded as a stage failure
StageLoad_RecordsFailure ==
    /\ pc = "load"
    /\ cur \in {BRIGHTDATA, LLM_FIT, RERANK}
    /\ UNCHANGED <<Env, call, cur, req, stop_at, completed, output, result, outcome>>
    /\ IF ~stage_docs[req.input_stage].exists
       THEN /\ raised' = [code |-> "FAILED_PRECONDITION", message |-> "stage document not found"]
            /\ pc' = "raised"
            /\ stage_docs' = [stage_docs EXCEPT ![cur] =
                   save_stage_document(@, cur, req.user_id, <<>>, "error", {},
                                       "stage document not found")]
            /\ status_doc' = error_pipeline_status(status_doc, req.user_id,
                                                   "stage document not found", -1)
            /\ ops' = ops \o <<<<"read", req.input_stage>>, <<"save_error", cur>>,
                               <<"status_error", cur>>>>
            /\ UNCHANGED profiles
       ELSE LET loaded == stage_docs[req.input_stage].profiles
                input == IF cur = LLM_FIT
                         THEN _apply_brightdata_filter(stage_docs, loaded)
                         ELSE loaded
            IN /\ profiles' = input
               /\ ops' = IF cur = LLM_FIT /\ loaded # <<>>
                         THEN ops \o <<<<"read", req.input_stage>>, <<"read", BRIGHTDATA>>>>
                         ELSE Append(ops, <<"read", req.input_stage>>)
               /\ pc' = IF input = <<>> THEN "save" ELSE "run"
               /\ UNCHANGED <<raised, status_doc, stage_docs>>

StageLoad ==
    /\ pc = "load"
    /\ cur \in {BRIGHTDATA, LLM_FIT, RERANK}
    /\ UNCHANGED <<status_doc, stage_docs, Env, call, cur, req, stop_at,
                   completed, output, result, outcome>>
    /\ IF ~stage_docs[req.input_stage].exists
       THEN \* StageDocumentNotFoundError -> HttpsError
            /\ raised' = HttpsError("FAILED_PRECONDITION", "stage document not found")
            /\ pc' = "raised"
            /\ ops' = Append(ops, <<"read", req.input_stage>>)
            /\ UNCHANGED profiles
       ELSE LET loaded == stage_docs[req.input_stage].profiles
                input == IF cur = LLM_FIT
                         THEN _apply_brightdata_filter(stage_docs, loaded)
                         ELSE loaded
            IN /\ profiles' = input
               /\ ops' = IF cur = LLM_FIT /\ loaded # <<>>
                         THEN ops \o <<<<"read", req.input_stage>>, <<"read", BRIGHTDATA>>>>
                         ELSE Append(ops, <<"read", req.input_stage>>)
               /\ pc' = IF input = <<>> THEN "save" ELSE "run"
               /\ UNCHANGED raised

(***************************************************************************)
(* the stage's run(): the provider calls                                   *)
(***************************************************************************)
\* response.json()["scores"] of the rerank endpoint: one score per document, or not
ScoreLists == UNION {[1..n -> {1, 2}] : n \in 0..(MaxProfiles + 1)}

RECURSIVE InsertByScore(_, _, _)
\* insert the zero-based idx behind every index whose score is >= its own
InsertByScore(sorted, idx, scores) ==
    IF sorted = <<>> THEN <<idx>>
    ELSE IF scores[Head(sorted) + 1] >= scores[idx + 1]
         THEN <<Head(sorted)>> \o InsertByScore(Tail(sorted), idx, scores)
         ELSE <<idx>> \o sorted

RECURSIVE SortByScore(_, _, _)
\* sorted(enumerate(scores), key=score, reverse=True), as indexes
SortByScore(scores, idx, acc) ==
    IF idx >= Len(scores) THEN acc
    ELSE SortByScore(scores, idx + 1, InsertByScore(acc, idx, scores))

\* RerankClient.rerank on an ok response: ranking[:k]
rerank(scores, top_k) ==
    LET ranking == SortByScore(scores, 0, <<>>)
        k == IF top_k # 0 THEN Max(1, Min(top_k, Len(ranking))) ELSE Len(ranking)
    IN SubSeq(ranking, 1, Min(k, Len(ranking)))

RECURSIVE RerankOrdered(_, _, _)
\* the loop over ranking: indexes seen before or outside inputs_subset are skipped
RerankOrdered(ranking, n, seen) ==
    IF ranking = <<>> THEN seen
    ELSE LET idx == Head(ranking)
         IN RerankOrdered(Tail(ranking), n,
                IF Contains(seen, idx) \/ ~(0 <= idx /\ idx < n) THEN seen
                ELSE Append(seen, idx))

\* the zero-based indexes of inputs_subset that make `ordered`, in order
RerankSeen(input, top_k, scores) ==
    LET k == Max(1, Min(top_k, Len(input)))
    IN RerankOrdered(rerank(scores, k), Len(SubSeq(input, 1, k)), <<>>)

\* variant: the remainder is taken from inputs_subset only
RerankStageRun_SubsetOnly(input, top_k, scores) ==
    IF input = <<>> THEN <<>>
    ELSE LET k == Max(1, Min(top_k, Len(input)))
             seen == RerankSeen(input, top_k, scores)
             ordered == [i \in 1..Len(seen) |-> input[seen[i] + 1]]
             rest == SelectSeq([i \in 1..k |-> i], LAMBDA i : ~Contains(seen, i - 1))
             remainder == [i \in 1..Len(rest) |-> input[rest[i]]]
         IN IF ordered # <<>> THEN ordered \o remainder ELSE input

\* RerankStage.run when the client returned a ranking; the remainder is the
\* profiles that are not, as objects, in `ordered`
RerankStageRun(input, top_k, scores) ==
    IF input = <<>> THEN <<>>
    ELSE LET seen == RerankSeen(input, top_k, scores)
             ordered == [i \in 1..Len(seen) |-> input[seen[i] + 1]]
             rest == SelectSeq([i \in 1..Len(input) |-> i], LAMBDA i : ~Contains(seen, i - 1))
             remainder == [i \in 1..Len(rest) |-> input[rest[i]]]
         IN IF ordered # <<>> THEN ordered \o remainder ELSE input

\* candidate.rerank_score = float(score): the scores set on the profiles of
\* `ordered`, by position in the returned list
rerank_scores(input, top_k, scores) ==
    IF input = <<>> THEN <<>>
    ELSE LET seen == RerankSeen(input, top_k, scores)
         IN [i \in 1..Len(seen) |-> scores[seen[i] + 1]]

\* what a successful run of the stage can return for the loaded profiles
RunOutputs(stage, input) ==
    CASE stage = SEARCH ->
            {[profiles |-> r, success_keys |-> {}] : r \in SearchResults}
      [] stage = BRIGHTDATA ->
            {[profiles |-> input, success_keys |-> k] : k \in SUBSET Range(input)}
      [] stage = RERANK ->
            {[profiles |-> RerankStageRun(input, req.top_k, scores), success_keys |-> {}] :
                 scores \in ScoreLists}
      [] OTHER ->
            {[profiles |-> r, success_keys |-> {}] : r \in Orderings(input)}

StageRunOk ==
    /\ pc = "run"
    /\ \E out \in RunOutputs(cur, profiles) : output' = out
    /\ ops' = Append(ops, <<"provider", cur>>)
    /\ pc' = "save"
    /\ UNCHANGED <<status_doc, stage_docs, Env, call, cur, req, stop_at,
                   completed, profiles, raised, result, outcome>>

\* RerankStage.run, except RerankError: the endpoint answered with an error
\* status; the input list is returned as it is
RerankRunDegraded ==
    /\ pc = "run"
    /\ cur = RERANK
    /\ output' = [profiles |-> profiles, success_keys |-> {}]
    /\ ops' = ops \o <<<<"provider", cur>>, <<"endpoint_failed", cur>>>>
    /\ pc' = "save"
    /\ UNCHANGED <<status_doc, stage_docs, Env, call, cur, req, stop_at,
                   completed, profiles, raised, result, outcome>>

\* exception classes the except clause of the stage tells apart; for RERANK what
\* session.post raises when the request does not get through
RunExceptions(stage) ==
    IF stage = BRIGHTDATA THEN {"Timeout", "RuntimeError", "Exception"}
    ELSE IF stage = RERANK THEN {"ConnectionError"}
    ELSE {"Exception"}

\* HttpsError code chosen for the exception the run raised
RunErrorCode(stage, exc) ==
    IF stage = BRIGHTDATA
    THEN (IF exc = "Timeout" THEN "UNAVAILABLE"
          ELSE IF exc = "RuntimeError" THEN "FAILED_PRECONDITION"
          ELSE "INTERNAL")
    ELSE IF stage = RERANK /\ exc = "RerankError" THEN "UNAVAILABLE"
    ELSE "INTERNAL"

RunErrorMessage(stage) ==
    CASE stage = SEARCH -> "Search stage execution failed"
      [] stage = BRIGHTDATA -> "BrightData stage execution failed"
      [] stage = RERANK -> "Rerank stage execution failed"
      [] OTHER -> "LLM fit stage execution failed"

\* stage_utils.record_stage_failure on the stage document
RecordFailureStageDoc(doc, stage, user_id, error_message) ==
    save_stage_document(doc, stage, user_id, <<>>, "error", {}, error_message)

\* stage_utils.record_stage_failure on the status document
RecordFailureStatus(doc, user_id, error_message, progress) ==
    error_pipeline_status(doc, user_id, error_message, progress)

StageRunFail(exc) ==
    /\ pc = "run"
    /\ stage_docs' = [stage_docs EXCEPT ![cur] =
                         RecordFailureStageDoc(@, cur, req.user_id, "provider failure")]
    /\ status_doc' = RecordFailureStatus(status_doc, req.user_id, "provider failure",
                                         get_stage_progress(cur))
    /\ ops' = ops \o <<<<"provider", cur>>>>
                  \o (IF cur = RERANK THEN <<<<"endpoint_failed", cur>>>> ELSE <<>>)
                  \o <<<<"save_error", cur>>, <<"status_error", cur>>>>
    /\ raised' = HttpsError(RunErrorCode(cur, exc), RunErrorMessage(cur))
    /\ pc' = "raised"
    /\ UNCHANGED <<Env, call, cur, req, stop_at, completed, profiles, output,
                   result, outcome>>

(***************************************************************************)
(* execute_*_stage after a successful run: save_stage_document,            *)
(* update_pipeline_status, (LLM_FIT: complete_pipeline_status),            *)
(* build_stage_result                                                      *)
(***************************************************************************)
\* the status document after the stage's completion writes
StatusAfterStage(doc, stage, user_id, stages_done) ==
    LET updated == update_pipeline_status(doc, user_id, stage,
                                          get_stage_progress(stage), stages_done)
    IN IF stage = LLM_FIT THEN complete_pipeline_status(updated, user_id, 100)
       ELSE updated

build_stage_result(stage, out_profiles, status, completed_stages) ==
    [stage |-> stage, status |-> status,
     completed_stages |-> ensure_completed_stages(completed_stages, stage),
     profiles |-> out_profiles]

StageSave ==
    /\ pc = "save"
    /\ LET stages_done == ensure_completed_stages(req.completed_stages, cur)
           debug_keys == PersistedSuccessKeys(req.debug_mode, output.success_keys)
       IN /\ stage_docs' = [stage_docs EXCEPT ![cur] =
                 save_stage_document(@, cur, req.user_id, output.profiles,
                                     "completed", debug_keys, NONE)]
          /\ status_doc' = StatusAfterStage(status_doc, cur, req.user_id, stages_done)
          /\ result' = build_stage_result(cur, output.profiles, "completed", stages_done)
    /\ ops' = ops \o <<<<"save_completed", cur>>, <<"status_update", cur>>>>
                  \o (IF cur = LLM_FIT THEN <<<<"status_complete", cur>>>> ELSE <<>>)
    /\ pc' = "returned"
    /\ UNCHANGED <<Env, call, cur, req, stop_at, completed, profiles, output,
                   raised, outcome>>

(***************************************************************************)
(* orchestrator: _record_stage_result, _should_run_stage, the next stage   *)
(***************************************************************************)
stage_rank(stage) == IndexOf(stage_sequence, stage)

\* variant: the stage right after the stop point still runs
_should_run_stage_OffByOne(stage_name, stop) ==
    IF stop = NONE THEN TRUE
    ELSE IF ~Contains(stage_sequence, stop) \/ ~Contains(stage_sequence, stage_name)
    THEN TRUE
    ELSE stage_rank(stage_name) <= stage_rank(stop) + 1

_should_run_stage(stage_name, stop) ==
    IF stop = NONE THEN TRUE
    ELSE IF ~Contains(stage_sequence, stop) \/ ~Contains(stage_sequence, stage_name)
    THEN TRUE
    ELSE stage_rank(stage_name) <= stage_rank(stop)

\* the stages after `stage` whose `if _should_run_stage(...)` block is entered
LaterStagesToRun(stage, stop) ==
    {s \in {BRIGHTDATA, LLM_FIT} :
        stage_rank(s) > stage_rank(stage) /\ _should_run_stage(s, stop)}

OrchAdvance ==
    /\ pc = "returned"
    /\ call = "orchestrator"
    /\ completed' = result.completed_stages
    /\ LET later == LaterStagesToRun(cur, stop_at)
       IN IF later = {}
          THEN /\ pc' = "complete"
               /\ UNCHANGED <<cur, req, ops>>
          ELSE LET next == CHOOSE s \in later : \A t \in later : stage_rank(s) <= stage_rank(t)
               IN /\ cur' = next
                  /\ req' = [req EXCEPT
                                !.input_stage = IF next = BRIGHTDATA THEN SEARCH ELSE BRIGHTDATA,
                                !.completed_stages = result.completed_stages]
                  /\ pc' = "enter"
                  /\ UNCHANGED ops
    /\ UNCHANGED <<status_doc, stage_docs, Env, call, stop_at, profiles, output,
                   raised, result, outcome>>

OrchComplete ==
    /\ pc = "complete"
    /\ call = "orchestrator"
    /\ status_doc' = complete_pipeline_status(status_doc, req.user_id, 100)
    /\ ops' = Append(ops, <<"status_complete", NONE>>)
    /\ outcome' = "ok"
    /\ pc' = "idle"
    /\ UNCHANGED <<stage_docs, Env, call, cur, req, stop_at, completed, profiles,
                   output, raised, result>>

\* variant: the handler re-raises without touching the status document
OrchExcept_Swallow ==
    /\ pc = "raised"
    /\ call = "orchestrator"
    /\ outcome' = raised.code
    /\ pc' = "idle"
    /\ UNCHANGED <<status_doc, ops, stage_docs, Env, call, cur, req, stop_at, completed,
                   profiles, output, raised, result>>

\* variant: the handler closes the run as completed before re-raising
OrchExcept_Completes ==
    /\ pc = "raised"
    /\ call = "orchestrator"
    /\ status_doc' = complete_pipeline_status(status_doc, req.user_id, 100)
    /\ ops' = Append(ops, <<"status_complete", NONE>>)
    /\ outcome' = raised.code
    /\ pc' = "idle"
    /\ UNCHANGED <<stage_docs, Env, call, cur, req, stop_at, completed, profiles,
                   output, raised, result>>

\* except https_fn.HttpsError: error_pipeline_status(...); raise
OrchExcept ==
    /\ pc = "raised"
    /\ call = "orchestrator"
    /\ status_doc' = error_pipeline_status(status_doc, req.user_id,
                        IF raised.message # "" THEN raised.message ELSE "Pipeline failed",
                        -1)
    /\ ops' = Append(ops, <<"status_error", NONE>>)
    /\ outcome' = raised.code
    /\ pc' = "idle"
    /\ UNCHANGED <<stage_docs, Env, call, cur, req, stop_at, completed, profiles,
                   output, raised, result>>

(***************************************************************************)
(* standalone stage callables: result.to_response() or the error           *)
(***************************************************************************)
StageReturn ==
    /\ pc = "returned"
    /\ call = "stage"
    /\ outcome' = "ok"
    /\ pc' = "idle"
    /\ UNCHANGED <<status_doc, stage_docs, Env, call, cur, req, stop_at, completed,
                   profiles, output, raised, result, ops>>

StageRaise ==
    /\ pc = "raised"
    /\ call = "stage"
    /\ outcome' = raised.code
    /\ pc' = "idle"
    /\ UNCHANGED <<status_doc, stage_docs, Env, call, cur, req, stop_at, completed,
                   profiles, output, raised, result, ops>>

StopValues == StageNames \cup {NONE}

\* payload fields the stage's payload model has
InputStages(stage) == IF stage = SEARCH THEN {NONE} ELSE {SEARCH, BRIGHTDATA}
Queries(stage) == IF stage = LLM_FIT THEN {"", "brief"} ELSE {""}

Next ==
    \/ \E auth \in AuthValues, debug_mode \in BOOLEAN, q \in {"", "brief"},
          stop \in StopValues :
          OrchestratorCall(auth, debug_mode, q, stop)
    \/ \E stage \in StageNames, auth \in AuthValues, debug_mode \in BOOLEAN,
          pipeline_id \in {PID, " ", ""}, cs \in CallerCompleted :
          \E input_stage \in InputStages(stage), q \in Queries(stage),
             user_id \in SuppliedUserIds :
              StageCall(stage, auth, debug_mode, user_id, pipeline_id, cs, input_stage, q)
    \/ \E init_ok \in BOOLEAN : StageEnter(init_ok)
    \/ StageLoad
    \/ StageRunOk
    \/ \E exc \in RunExceptions(cur) : StageRunFail(exc)
    \/ StageSave
    \/ OrchAdvance
    \/ OrchComplete
    \/ OrchExcept
    \/ StageReturn
    \/ StageRaise

Spec == Init /\ [][Next]_vars

(***************************************************************************)
(* The five callable entry points together: the orchestrator, the three    *)
(* pipeline stages and the optional rerank stage, on one pipeline.         *)
(***************************************************************************)
InitWithRerank ==
    /\ norm = NoNorm
    /\ SweeperAtRest
    /\ RunsAtRest
    /\ InnerAtRest
    /\ status_doc = NoStatusDoc
    /\ stage_docs = [s \in DocStages |-> NoStageDoc]
    /\ search_ready = FALSE
    /\ brightdata_ready = FALSE
    /\ dataset_ready = TRUE
    /\ emulator \in BOOLEAN
    /\ reranker_enabled \in BOOLEAN
    /\ rerank_ready = FALSE
    /\ caller = NoCaller
    /\ call = NONE
    /\ pc = "idle"
    /\ cur = NONE
    /\ req = NoReq
    /\ stop_at = NONE
    /\ completed = <<>>
    /\ profiles = <<>>
    /\ output = NoOutput
    /\ raised = NoRaise
    /\ result = NoResult
    /\ outcome = NONE
    /\ ops = <<>>
    /\ ncalls = 0

\* top_k values of the rerank payload: below the list length, the default
TopKs == {1, 200}

NextWithRerank ==
    \/ \E auth \in AuthValues, debug_mode \in BOOLEAN :
          OrchestratorCall(auth, debug_mode, "brief", SEARCH)
    \/ \E stage \in StageNames, auth \in AuthValues, debug_mode \in BOOLEAN,
          user_id \in SuppliedUserIds :
          StageCall(stage, auth, debug_mode, user_id, PID, <<>>,
                    IF stage = LLM_FIT THEN BRIGHTDATA ELSE SEARCH, "brief")
    \/ \E auth \in AuthValues, debug_mode \in BOOLEAN, user_id \in SuppliedUserIds,
          query \in {"", "brief"}, top_k \in TopKs :
          RerankCall(auth, debug_mode, user_id, PID, SEARCH, query, top_k, <<>>)
    \/ \E init_ok \in BOOLEAN : StageEnter(init_ok)
    \/ StageLoad
    \/ StageRunOk
    \/ RerankRunDegraded
    \/ \E exc \in RunExceptions(cur) : StageRunFail(exc)
    \/ StageSave
    \/ OrchAdvance
    \/ OrchComplete
    \/ OrchExcept
    \/ StageReturn
    \/ StageRaise

SpecWithRerank == InitWithRerank /\ [][NextWithRerank]_vars

(***************************************************************************)
(* The completed-stages bookkeeping of a stage completion on its own, for  *)
(* every caller-supplied completed_stages list up to MaxLen:               *)
(*   completed = ensure_completed_stages(payload.completed_stages, stage)  *)
(*   update_pipeline_status(..., completed_stages=completed)               *)
(*   build_stage_result(..., completed_stages=completed)                   *)
(***************************************************************************)
SeqsUpTo(S, n) == UNION {[1..k -> S] : k \in 0..n}

\* stage_name of the four stage executors
ExecutorStages == {"SEARCH", "BRIGHTDATA", "LLM_FIT", "RERANK"}

\* the pipeline at rest, untouched by the bookkeeping steps
PipelineVars == <<status_doc, stage_docs, search_ready, brightdata_ready, dataset_ready,
                  emulator, reranker_enabled, rerank_ready, caller, call, pc, cur, req, stop_at, completed, profiles, output,
                  raised, result, outcome, ops, ncalls>>

PipelineAtRest ==
    /\ status_doc = NoStatusDoc
    /\ stage_docs = [s \in DocStages |-> NoStageDoc]
    /\ search_ready = FALSE
    /\ brightdata_ready = FALSE
    /\ dataset_ready = FALSE
    /\ emulator = FALSE
    /\ reranker_enabled = FALSE
    /\ rerank_ready = FALSE
    /\ caller = NoCaller
    /\ call = NONE
    /\ pc = "off"
    /\ cur = NONE
    /\ req = NoReq
    /\ stop_at = NONE
    /\ completed = <<>>
    /\ profiles = <<>>
    /\ output = NoOutput
    /\ raised = NoRaise
    /\ result = NoResult
    /\ outcome = NONE
    /\ ops = <<>>
    /\ ncalls = 0

\* what the bookkeeping steps leave alone
NormalizeOthers == <<PipelineVars, SweeperVars, runs, InnerVars>>

InitNormalize ==
    /\ PipelineAtRest
    /\ SweeperAtRest
    /\ RunsAtRest
    /\ InnerAtRest
    /\ \E existing \in SeqsUpTo(Spellings, MaxLen), stage \in ExecutorStages :
          norm = [pc |-> "start", existing |-> existing, stage |-> stage,
                  persisted |-> <<>>, returned |-> <<>>, again |-> <<>>]

\* the stage completes: what it persists in the status and returns in its result
CompleteStageLists ==
    /\ norm.pc = "start"
    /\ LET stages_done == ensure_completed_stages(norm.existing, norm.stage)
       IN norm' = [norm EXCEPT
              !.pc = "completed",
              !.persisted = update_pipeline_status(NoStatusDoc, "uid-1", norm.stage,
                                get_stage_progress(norm.stage), stages_done).completed_stages,
              !.returned = build_stage_result(norm.stage, <<>>, "completed",
                                              stages_done).completed_stages]
    /\ UNCHANGED NormalizeOthers

\* normalize_completed_stages applied to its own output
NormalizeAgain ==
    /\ norm.pc = "completed"
    /\ norm' = [norm EXCEPT
           !.pc = "renormalized",
           !.again = normalize_completed_stages(norm.persisted, norm.stage)]
    /\ UNCHANGED NormalizeOthers

NextNormalize == CompleteStageLists \/ NormalizeAgain

SpecNormalize == InitNormalize /\ [][NextNormalize]_vars

(***************************************************************************)
(* cleanup_expired_pipelines, run every hour against the documents the     *)
(* persistence layer writes, interleaved with _set_document calls.         *)
(***************************************************************************)
\* what no sweeper or persistence step touches
SweeperOthers == <<PipelineVars, norm, runs, InnerVars>>

MAX_DOCS_PER_RUN == 500
MAX_PIPELINES_PER_RUN == 100

\* the persistence calls, by what their payload carries
WriterOps ==
    {"create_pipeline_status", "update_pipeline_status", "error_pipeline_status",
     "save_stage_document"}

\* the document the call writes
WriteTarget(op, pipeline_id, stage) ==
    IF op = "save_stage_document" THEN stage_document_id(pipeline_id, stage)
    ELSE pipeline_status_id(pipeline_id)

\* payload["pipeline_id"]: only create_pipeline_status and save_stage_document set it
PayloadPipelineId(op, pipeline_id) ==
    IF op \in {"create_pipeline_status", "save_stage_document"} THEN pipeline_id ELSE <<>>

\* datetime.now(timezone.utc) + timedelta(hours=_TTL_HOURS)
_ttl_value == clock + _TTL_HOURS

\* _set_document up to the write: snapshot = doc_ref.get(); base = {**payload, ttl}
SetDocumentGet(op, pipeline_id, stage) ==
    /\ wr.pc = "idle"
    /\ wr' = [pc |-> "got",
              doc |-> WriteTarget(op, pipeline_id, stage),
              pipeline_id |-> PayloadPipelineId(op, pipeline_id),
              exists |-> collection[WriteTarget(op, pipeline_id, stage)].exists,
              ttl |-> _ttl_value]
    /\ UNCHANGED <<SweeperOthers, clock, collection, sweep>>

\* doc_ref.update(base) if the snapshot existed (NotFound when the document is
\* gone by now), else doc_ref.set(base)
SetDocumentWrite ==
    /\ wr.pc = "got"
    /\ wr' = NoWrite
    /\ IF wr.exists
       THEN IF collection[wr.doc].exists
            THEN /\ collection' = [collection EXCEPT ![wr.doc] =
                       [exists |-> TRUE,
                        pipeline_id |-> IF wr.pipeline_id # <<>> THEN wr.pipeline_id
                                        ELSE collection[wr.doc].pipeline_id,
                        ttl |-> wr.ttl]]
                 /\ sweep' = [sweep EXCEPT !.written = TRUE]
            ELSE UNCHANGED <<collection, sweep>>
       ELSE /\ collection' = [collection EXCEPT ![wr.doc] =
                  [exists |-> TRUE, pipeline_id |-> wr.pipeline_id, ttl |-> wr.ttl]]
            /\ sweep' = [sweep EXCEPT !.written = TRUE]
    /\ UNCHANGED <<SweeperOthers, clock>>

\* an hour passes
Tick ==
    /\ clock < MaxClock
    /\ clock' = clock + 1
    /\ UNCHANGED <<SweeperOthers, collection, sweep, wr>>

\* data.get("pipeline_id"), else doc_id.split("_", 1)[0]
_extract_pipeline_id(doc_id, data) ==
    IF data.pipeline_id # <<>> THEN data.pipeline_id
    ELSE IF doc_id = <<>> THEN <<>> ELSE <<Head(doc_id)>>

RECURSIVE _deduplicate_pipeline_ids(_, _)
\* ids of the snapshots in order, first occurrence kept, at most MAX_PIPELINES_PER_RUN
_deduplicate_pipeline_ids(snapshots, dedup) ==
    IF snapshots = <<>> THEN dedup
    ELSE LET pipeline_id == _extract_pipeline_id(Head(snapshots), collection[Head(snapshots)])
             next == IF pipeline_id = <<>> \/ Contains(dedup, pipeline_id) THEN dedup
                     ELSE Append(dedup, pipeline_id)
         IN IF pipeline_id # <<>> /\ Len(next) >= MAX_PIPELINES_PER_RUN THEN next
            ELSE _deduplicate_pipeline_ids(Tail(snapshots), next)

_ttl_expired(ttl_value, now) == ttl_value <= now

\* where("ttl", "<", start_time).order_by("ttl"): the orders the query can return
ExpiredQueryResults(start_time) ==
    LET expired == {d \in DocIds : collection[d].exists /\ collection[d].ttl < start_time}
    IN {o \in [1..Cardinality(expired) -> expired] :
           /\ \A i, j \in DOMAIN o : i # j => o[i] # o[j]
           /\ \A i, j \in DOMAIN o : i < j => collection[o[i]].ttl <= collection[o[j]].ttl}

\* cleanup_expired_pipelines up to the loop over pipeline_ids
SweepQuery ==
    /\ sweep.pc \in {"idle", "done"}
    /\ \E found \in ExpiredQueryResults(clock) :
          LET expired_snapshots == SubSeq(found, 1, Min(Len(found), MAX_DOCS_PER_RUN))
          IN sweep' = [pc |-> IF expired_snapshots = <<>> THEN "done" ELSE "read",
                       start_time |-> clock,
                       pipeline_ids |-> _deduplicate_pipeline_ids(expired_snapshots, <<>>),
                       batch |-> {}, failed |-> FALSE, written |-> FALSE]
    /\ UNCHANGED <<SweeperOthers, clock, collection, wr>>

\* _delete_pipeline_documents up to batch.commit()
SweepRead ==
    /\ sweep.pc = "read"
    /\ sweep.pipeline_ids # <<>>
    /\ LET pipeline_id == Head(sweep.pipeline_ids)
           snapshots == {d \in DocIds : collection[d].exists
                                           /\ collection[d].pipeline_id = pipeline_id}
           deletions == {d \in snapshots : _ttl_expired(collection[d].ttl, sweep.start_time)}
       IN sweep' = IF deletions = {}
                   THEN [sweep EXCEPT !.pipeline_ids = Tail(sweep.pipeline_ids)]
                   ELSE [sweep EXCEPT !.pc = "commit", !.batch = deletions]
    /\ UNCHANGED <<SweeperOthers, clock, collection, wr>>

\* batch.commit(): the deletes apply, or GoogleCloudError and the loop continues
SweepCommit(ok) ==
    /\ sweep.pc = "commit"
    /\ collection' = IF ok THEN [d \in DocIds |-> IF d \in sweep.batch THEN NoDoc
                                                  ELSE collection[d]]
                     ELSE collection
    /\ sweep' = [sweep EXCEPT !.pc = "read", !.batch = {},
                              !.pipeline_ids = Tail(sweep.pipeline_ids),
                              !.failed = sweep.failed \/ ~ok]
    /\ UNCHANGED <<SweeperOthers, clock, wr>>

\* the loop over pipeline_ids is over
SweepDone ==
    /\ sweep.pc = "read"
    /\ sweep.pipeline_ids = <<>>
    /\ sweep' = [sweep EXCEPT !.pc = "done"]
    /\ UNCHANGED <<SweeperOthers, clock, collection, wr>>

InitSweeper ==
    /\ PipelineAtRest
    /\ norm = NoNorm
    /\ SweeperAtRest
    /\ RunsAtRest
    /\ InnerAtRest

NextSweeper ==
    \/ \E op \in WriterOps, pipeline_id \in SweepPipelines, stage \in SweepStages :
          SetDocumentGet(op, pipeline_id, stage)
    \/ SetDocumentWrite
    \/ Tick
    \/ SweepQuery
    \/ SweepRead
    \/ \E ok \in BOOLEAN : SweepCommit(ok)
    \/ SweepDone

SpecSweeper == InitSweeper /\ [][NextSweeper]_vars

(***************************************************************************)
(* Concurrent search_pipeline_orchestrator runs and the documents each one *)
(* writes: the status document <pipeline_id> and the stage documents       *)
(* <pipeline_id>_<STAGE>.                                                  *)
(***************************************************************************)
\* request.data["pipeline_id"] after strip(): absent, or what the caller sent
RequestedPipelineIds == {<<>>, <<"p">>, <<"p", "SEARCH">>}

\* uuid.uuid4().hex: a fresh id per call, without "_"
UuidHex == <<"u1", "u2", "u3", "u4">>
uuid4(r) == <<UuidHex[r]>>

RunsOthers == <<PipelineVars, norm, SweeperVars, InnerVars>>

\* pipeline_id = payload pipeline_id or uuid4().hex; create_pipeline_status
RunStart(r, requested) ==
    /\ runs[r].pc = "idle"
    /\ LET pipeline_id == IF requested = <<>> THEN uuid4(r) ELSE requested
       IN runs' = [runs EXCEPT ![r] = [pc |-> "running", pipeline_id |-> pipeline_id,
                                       written |-> {pipeline_status_id(pipeline_id)}]]
    /\ UNCHANGED RunsOthers

\* a stage of the run completes: save_stage_document, update_pipeline_status
RunSaveStage(r, stage) ==
    /\ runs[r].pc = "running"
    /\ runs' = [runs EXCEPT ![r].written =
                   @ \cup {stage_document_id(runs[r].pipeline_id, stage),
                           pipeline_status_id(runs[r].pipeline_id)}]
    /\ UNCHANGED RunsOthers

\* complete_pipeline_status / error_pipeline_status
RunFinish(r) ==
    /\ runs[r].pc = "running"
    /\ runs' = [runs EXCEPT ![r].pc = "done",
                            ![r].written = @ \cup {pipeline_status_id(runs[r].pipeline_id)}]
    /\ UNCHANGED RunsOthers

InitRuns ==
    /\ PipelineAtRest
    /\ norm = NoNorm
    /\ SweeperAtRest
    /\ RunsAtRest
    /\ InnerAtRest

NextRuns ==
    \/ \E r \in RunIds, requested \in RequestedPipelineIds : RunStart(r, requested)
    \/ \E r \in RunIds, stage \in StageNames : RunSaveStage(r, stage)
    \/ \E r \in RunIds : RunFinish(r)

SpecRuns == InitRuns /\ [][NextRuns]_vars

(***************************************************************************)
(* WeaviateSearchStage.run: query expansion, one embedding per query, one  *)
(* hybrid sub-search per query and alpha, first-seen deduplication, then   *)
(* the sort by combined_score and the cut to top_n and limit.              *)
(***************************************************************************)
DEFAULT_ALPHA_VALUES == <<"0.2", "0.5", "0.8">>
DEFAULT_TOP_N == 1000

\* objects a hybrid query can return, as the profile _weaviate_to_profile maps
\* them to (mappable = FALSE: the mapping raises and gives None)
WeaviateObjects ==
    {[lance_db_id |-> "L1", username |-> "alice", profile_url |-> "x.com/alice",
      combined_score |-> 2, mappable |-> TRUE],
     [lance_db_id |-> "L1", username |-> "alice", profile_url |-> "x.com/alice",
      combined_score |-> 3, mappable |-> TRUE],
     [lance_db_id |-> "", username |-> "alice", profile_url |-> "",
      combined_score |-> 1, mappable |-> TRUE],
     [lance_db_id |-> "", username |-> "Alice", profile_url |-> "",
      combined_score |-> 1, mappable |-> TRUE],
     [lance_db_id |-> "", username |-> "alice", profile_url |-> "y.com/alice",
      combined_score |-> 1, mappable |-> TRUE],
     [lance_db_id |-> "", username |-> "", profile_url |-> "",
      combined_score |-> 1, mappable |-> FALSE]}

\* response.objects of one hybrid query
HybridResponses == UNION {[1..n -> WeaviateObjects] : n \in 0..MaxHits}

\* what _expanded_queries returns: the expansion, or [inquiry] when it failed
ExpandedQueries == {<<"q1">>, <<" ", "q1">>, <<"q1", "q2">>}

\* str.lower() on the names used here
Lower(text) ==
    CASE text = "Alice" -> "alice"
      [] text = "X.com/Carol" -> "x.com/carol"
      [] text = "API_KEY" -> "api_key"
      [] text = "Q1" -> "q1"
      [] OTHER -> text

\* (profile.lance_db_id or "").strip(), else
\* (profile.username or profile.account or profile.profile_url or "").strip()
dedupe_key(profile) ==
    IF Strip(profile.lance_db_id) # "" THEN Strip(profile.lance_db_id)
    ELSE IF profile.username # "" THEN Strip(profile.username)
    ELSE Strip(profile.profile_url)

RECURSIVE DedupeObjects(_, _)
\* the loop over the objects of one sub-search: state is [results, seen_ids]
DedupeObjects(objects, state) ==
    IF objects = <<>> THEN state
    ELSE LET profile == Head(objects)
             key == dedupe_key(profile)
         IN DedupeObjects(Tail(objects),
                IF ~profile.mappable \/ key = "" \/ key \in state.seen_ids THEN state
                ELSE [results |-> Append(state.results, profile),
                      seen_ids |-> state.seen_ids \cup {key}])

RECURSIVE InsertByCombinedScore(_, _)
\* insert behind every profile whose combined_score is >= the new one's
InsertByCombinedScore(sorted, profile) ==
    IF sorted = <<>> THEN <<profile>>
    ELSE IF Head(sorted).combined_score >= profile.combined_score
         THEN <<Head(sorted)>> \o InsertByCombinedScore(Tail(sorted), profile)
         ELSE <<profile>> \o sorted

RECURSIVE SortByCombinedScore(_, _)
\* sorted(results, key=combined_score, reverse=True)
SortByCombinedScore(items, acc) ==
    IF items = <<>> THEN acc
    ELSE SortByCombinedScore(Tail(items), InsertByCombinedScore(acc, Head(items)))

\* self._top_n = int(top_n or DEFAULT_TOP_N); 0 stands for None as well
_top_n(top_n) == IF top_n = 0 THEN DEFAULT_TOP_N ELSE top_n

\* variant: the union is cut in arrival order, without the sort
FinalResults_Unsorted(results, top_n, limit) ==
    LET top_results == SubSeq(results, 1, Min(top_n, Len(results)))
        limit_value == IF limit # 0 THEN Max(1, limit) ELSE 1
    IN SubSeq(top_results, 1, Min(limit_value, Len(top_results)))

\* sorted_results[:min(top_n, len)][:limit_value]
FinalResults(results, top_n, limit) ==
    LET sorted_results == SortByCombinedScore(results, <<>>)
        top_results == SubSeq(sorted_results, 1, Min(top_n, Len(sorted_results)))
        limit_value == IF limit # 0 THEN Max(1, limit) ELSE 1
    IN SubSeq(top_results, 1, Min(limit_value, Len(top_results)))

\* weaviate_top_n of the request or WEAVIATE_TOP_N: unset, and a cut to one
ConfiguredTopN == {0, 1}

SearchOthers == <<PipelineVars, norm, SweeperVars, runs, stg, enr, san, qe, scoring, dbg>>

\* run() up to _perform_multi_search's loop: the blank query, get_client(),
\* _expanded_queries
SearchStart(query, limit, connected, queries) ==
    /\ srch.pc = "idle"
    /\ srch' = IF Strip(query) = ""
               THEN [srch EXCEPT !.pc = "done", !.limit = limit]
               ELSE IF ~connected
               THEN [srch EXCEPT !.pc = "raised", !.limit = limit]  \* WeaviateClientError
               ELSE [srch EXCEPT !.pc = "query", !.limit = limit, !.queries = queries]
    /\ UNCHANGED SearchOthers

\* for query in queries: the blank query is skipped; generate_embedding gives a
\* vector, or None when the request failed
NextQuery(embedding_ok) ==
    /\ srch.pc = "query"
    /\ srch.queries # <<>>
    /\ LET normalized_query == Strip(Head(srch.queries))
       IN srch' = IF normalized_query = ""
                  THEN [srch EXCEPT !.queries = Tail(srch.queries)]
                  ELSE IF ~embedding_ok
                  THEN [srch EXCEPT !.queries = Tail(srch.queries), !.degraded = TRUE]
                  ELSE [srch EXCEPT !.pc = "hybrid", !.query = normalized_query,
                                    !.queries = Tail(srch.queries),
                                    !.alphas = DEFAULT_ALPHA_VALUES,
                                    !.embedded = @ \cup {normalized_query}]
    /\ UNCHANGED SearchOthers

\* the search state after the sub-search for the next alpha is through
AfterSubSearch(s) ==
    [s EXCEPT !.alphas = Tail(s.alphas),
              !.attempted = @ \cup {<<s.query, Head(s.alphas)>>},
              !.pc = IF Tail(s.alphas) = <<>> THEN "query" ELSE "hybrid"]

\* variant: the exception of the hybrid query leaves _search_single_query_alpha
SubSearchFailed_Raises(s) == [s EXCEPT !.pc = "raised", !.degraded = TRUE]

\* _search_single_query_alpha, except Exception: return []
SubSearchFailed(s) == [AfterSubSearch(s) EXCEPT !.degraded = TRUE]

\* collection.query.hybrid raised
SubSearchFail ==
    /\ srch.pc = "hybrid"
    /\ srch' = SubSearchFailed(srch)
    /\ UNCHANGED SearchOthers

\* collection.query.hybrid returned objects: the dedupe loop
SubSearchOk(objects) ==
    /\ srch.pc = "hybrid"
    /\ LET kept == DedupeObjects(objects, [results |-> srch.results,
                                           seen_ids |-> srch.seen_ids])
       IN srch' = [AfterSubSearch(srch) EXCEPT
                      !.results = kept.results,
                      !.seen_ids = kept.seen_ids,
                      !.contributed = @ \cup Range(objects)]
    /\ UNCHANGED SearchOthers

\* run() after _perform_multi_search
SearchFinish ==
    /\ srch.pc = "query"
    /\ srch.queries = <<>>
    /\ srch' = [srch EXCEPT !.pc = "done", !.final = FinalResults(srch.results, srch.top_n, srch.limit)]
    /\ UNCHANGED SearchOthers

InitSearch ==
    /\ PipelineAtRest
    /\ norm = NoNorm
    /\ SweeperAtRest
    /\ RunsAtRest
    /\ StagesAtRest
    /\ EnrichAtRest
    /\ SanitizeAtRest
    /\ ExpandAtRest
    /\ ScoringAtRest
    /\ DebugPairAtRest
    /\ \E top_n \in ConfiguredTopN : srch = [NoSearch EXCEPT !.pc = "idle", !.top_n = _top_n(top_n)]

\* limit of the search request: the default, and a cut
SearchLimits == {1, 20}

NextSearch ==
    \/ \E query \in {" ", "brief"}, limit \in SearchLimits, connected \in BOOLEAN,
          queries \in ExpandedQueries :
          SearchStart(query, limit, connected, queries)
    \/ \E embedding_ok \in BOOLEAN : NextQuery(embedding_ok)
    \/ SubSearchFail
    \/ \E objects \in HybridResponses : SubSearchOk(objects)
    \/ SearchFinish

SpecSearch == InitSearch /\ [][NextSearch]_vars

(***************************************************************************)
(* BrightDataStage.run, LLMFitStage.run and RerankStage.run applied to the *)
(* profiles of a persisted stage document, up to twice with the same       *)
(* parameters.  Optional integers are sequences of length at most one.     *)
(***************************************************************************)
\* profiles read back from a stage document (to_creator_profile gives account
\* and username the same value); no two of them have the same URL or account
StageProfiles ==
    {[lance_db_id |-> "L1", account |-> "alice", username |-> "alice",
      profile_url |-> "x.com/alice", biography |-> "bio", followers |-> "5",
      following |-> "3", posts_raw |-> "posts", profile_image_link |-> "img",
      business_email |-> "b@x", email_address |-> "e@x", combined_score |-> 2,
      fit_score |-> <<>>, fit_error |-> NONE, rerank_score |-> <<>>],
     [lance_db_id |-> "", account |-> "bob", username |-> "bob",
      profile_url |-> "", biography |-> "", followers |-> "0",
      following |-> NONE, posts_raw |-> NONE, profile_image_link |-> "",
      business_email |-> NONE, email_address |-> NONE, combined_score |-> 1,
      fit_score |-> <<>>, fit_error |-> NONE, rerank_score |-> <<>>],
     [lance_db_id |-> "", account |-> "", username |-> "",
      profile_url |-> "X.com/Carol", biography |-> "bio", followers |-> "5",
      following |-> NONE, posts_raw |-> NONE, profile_image_link |-> "img",
      business_email |-> NONE, email_address |-> "e@x", combined_score |-> 3,
      fit_score |-> <<>>, fit_error |-> NONE, rerank_score |-> <<>>],
     [lance_db_id |-> "L4", account |-> "", username |-> "",
      profile_url |-> "", biography |-> "", followers |-> "0",
      following |-> NONE, posts_raw |-> NONE, profile_image_link |-> "",
      business_email |-> NONE, email_address |-> NONE, combined_score |-> 1,
      fit_score |-> <<>>, fit_error |-> NONE, rerank_score |-> <<>>]}

\* Python truthiness of an optional string
Truthy(value) == value \notin {NONE, ""}

\* f"https://instagram.com/{handle}"
InstagramUrl(handle) ==
    CASE handle = "alice" -> "https://instagram.com/alice"
      [] handle = "bob" -> "https://instagram.com/bob"
      [] OTHER -> "https://instagram.com/handle"

\* brightdata_stage._profile_url: the profile's URL, else one built from the handle
_profile_url(profile) ==
    IF Truthy(profile.profile_url) /\ Strip(profile.profile_url) # ""
    THEN Strip(profile.profile_url)
    ELSE LET handle == Strip(IF Truthy(profile.username) THEN profile.username
                             ELSE IF Truthy(profile.account) THEN profile.account ELSE "")
         IN IF handle = "" THEN NONE ELSE InstagramUrl(handle)

\* normalized_profile_key on a profile object
normalized_profile_key(profile) ==
    IF Truthy(profile.profile_url) /\ Strip(profile.profile_url) # ""
    THEN Lower(Strip(profile.profile_url))
    ELSE LET username == IF Truthy(profile.username) THEN profile.username ELSE profile.account
         IN IF Truthy(username) /\ Strip(username) # "" THEN Lower(Strip(username)) ELSE NONE

\* normalized_profile_key on a record (dict) of the provider
normalized_record_key(record) ==
    LET profile_url == IF Truthy(record.profile_url) THEN record.profile_url ELSE record.url
    IN IF Truthy(profile_url) /\ Strip(profile_url) # "" THEN Lower(Strip(profile_url)) ELSE NONE

\* what the provider can return for one submitted URL
RecordKinds == {"none", "full", "blank", "warning"}

\* the record of each kind for a URL
ProviderRecord(url, kind) ==
    CASE kind = "full" ->
           [profile_url |-> NONE, url |-> url, biography |-> "new bio", followers |-> "12.0",
            following |-> "7", posts |-> "posts2", profile_image_url |-> "img2",
            business_email |-> NONE, email_address |-> "new@x", warning |-> NONE]
      [] kind = "blank" ->
           [profile_url |-> NONE, url |-> url, biography |-> " ", followers |-> "",
            following |-> NONE, posts |-> "", profile_image_url |-> "",
            business_email |-> "", email_address |-> "", warning |-> NONE]
      [] OTHER ->
           [profile_url |-> NONE, url |-> url, biography |-> NONE, followers |-> "n/a",
            following |-> NONE, posts |-> NONE, profile_image_url |-> NONE,
            business_email |-> NONE, email_address |-> NONE, warning |-> "dead_page"]

\* int(float(value)) as a decimal string; <<>> when float() raises ValueError
IntOfFloat(value) ==
    CASE value = "12.0" -> <<"12">>
      [] value = "7" -> <<"7">>
      [] OTHER -> <<>>

\* _is_success
_is_success(record) == ~(Truthy(record.warning) /\ Strip(record.warning) # "")

\* _apply_record
_apply_record(profile, record) ==
    LET biography == record.biography
        followers == record.followers
        following == record.following
        posts_value == record.posts
        profile_image_link == record.profile_image_url
        profile_url == IF Truthy(record.profile_url) THEN record.profile_url ELSE record.url
        business_email == IF Truthy(record.business_email) THEN record.business_email
                          ELSE record.email_address
        email_address == record.email_address
    IN [profile EXCEPT
          !.biography = IF biography # NONE /\ Strip(biography) # ""
                        THEN Strip(biography) ELSE @,
          !.followers = IF followers \notin {NONE, ""} /\ IntOfFloat(followers) # <<>>
                        THEN IntOfFloat(followers)[1] ELSE @,
          !.following = IF following \notin {NONE, ""} /\ IntOfFloat(following) # <<>>
                        THEN IntOfFloat(following)[1] ELSE @,
          !.posts_raw = IF Truthy(posts_value) THEN posts_value ELSE @,
          !.profile_image_link = IF Truthy(profile_image_link) THEN profile_image_link ELSE @,
          !.profile_url = IF profile_url # NONE /\ Strip(profile_url) # ""
                          THEN Strip(profile_url) ELSE @,
          !.business_email = IF business_email # NONE THEN business_email ELSE @,
          !.email_address = IF email_address # NONE THEN email_address ELSE @]

\* BrightDataStage.run: kinds[i] is what the provider returns for profile i
BrightDataStageRun(input, kinds) ==
    LET Submitted == {i \in 1..Len(input) : _profile_url(input[i]) # NONE}
        records == {ProviderRecord(_profile_url(input[i]), kinds[i]) :
                        i \in {j \in Submitted : kinds[j] # "none"}}
        RecordsFor(i) ==
            {r \in records : normalized_record_key(r) = Lower(Strip(_profile_url(input[i])))}
    IN [i \in 1..Len(input) |->
           IF i \notin Submitted \/ RecordsFor(i) = {} THEN input[i]
           ELSE _apply_record(input[i], CHOOSE r \in RecordsFor(i) : TRUE)]

\* the outcome of the up to three attempts for one profile: the JSON reply of
\* the attempt that parsed (with its "score", absent or null as <<>>), or none
LLMReplies ==
    {[parsed |-> TRUE, score |-> <<0>>], [parsed |-> TRUE, score |-> <<7>>],
     [parsed |-> TRUE, score |-> <<11>>], [parsed |-> TRUE, score |-> <<>>],
     [parsed |-> FALSE, score |-> <<>>]}

\* llm_fit_stage._best_profile_url
_best_profile_url(profile) ==
    IF Truthy(profile.profile_url) THEN profile.profile_url
    ELSE LET handle == Strip(IF Truthy(profile.username) THEN profile.username
                             ELSE IF Truthy(profile.account) THEN profile.account ELSE "")
         IN IF handle = "" THEN NONE ELSE InstagramUrl(handle)

\* ProfileFitAssessor._score_profile for the document LLMFitStage.run builds
_score_profile(profile, reply) ==
    [account |-> profile.account,
     profile_url |-> _best_profile_url(profile),
     score |-> IF reply.parsed /\ reply.score # <<>>
               THEN <<Max(1, Min(10, reply.score[1]))>> ELSE <<>>,
     error |-> IF reply.parsed THEN NONE ELSE "timed out"]

\* llm_fit_stage._fit_key
_fit_key(fit) ==
    IF Truthy(fit.account) THEN Lower(Strip(fit.account))
    ELSE IF Truthy(fit.profile_url) THEN Lower(Strip(fit.profile_url))
    ELSE NONE

\* llm_fit_stage._normalized_profile_key
_normalized_profile_key(profile) ==
    IF Truthy(profile.account) THEN Lower(Strip(profile.account))
    ELSE IF Truthy(profile.profile_url) THEN Lower(Strip(profile.profile_url))
    ELSE IF Truthy(profile.username) THEN Lower(Strip(profile.username))
    ELSE NONE

\* (profile.fit_score or 0, profile.combined_score) >= for two profiles
FitSortKeyGeq(a, b) ==
    LET fa == IF a.fit_score = <<>> THEN 0 ELSE a.fit_score[1]
        fb == IF b.fit_score = <<>> THEN 0 ELSE b.fit_score[1]
    IN fa > fb \/ (fa = fb /\ a.combined_score >= b.combined_score)

RECURSIVE InsertByFit_BeforeTies(_, _)
\* variant: a profile is put in front of those it ties with
InsertByFit_BeforeTies(sorted, profile) ==
    IF sorted = <<>> THEN <<profile>>
    ELSE IF FitSortKeyGeq(Head(sorted), profile) /\ ~FitSortKeyGeq(profile, Head(sorted))
         THEN <<Head(sorted)>> \o InsertByFit_BeforeTies(Tail(sorted), profile)
         ELSE <<profile>> \o sorted

RECURSIVE InsertByFit(_, _)
\* insert behind every profile whose sort key is >= the new one's
InsertByFit(sorted, profile) ==
    IF sorted = <<>> THEN <<profile>>
    ELSE IF FitSortKeyGeq(Head(sorted), profile)
         THEN <<Head(sorted)>> \o InsertByFit(Tail(sorted), profile)
         ELSE <<profile>> \o sorted

RECURSIVE SortByFit(_, _)
\* sorted(profiles, key=(fit_score or 0, combined_score), reverse=True)
SortByFit(items, acc) ==
    IF items = <<>> THEN acc
    ELSE SortByFit(Tail(items), InsertByFit(acc, Head(items)))

\* score_profiles: one result per document, in the order the futures
\* complete; order lists the positions of the input
ScoreResults(input, replies, order) ==
    LET completion == SelectSeq(order, LAMBDA i : i <= Len(input))
    IN [k \in 1..Len(input) |-> _score_profile(input[completion[k]], replies[completion[k]])]

\* fit_map.get(key) after `fit_map[key] = fit` for every result with a key:
\* the result stored last under the key, or none
FitMapGet(results, key) ==
    LET stored == {k \in 1..Len(results) : _fit_key(results[k]) # NONE /\ _fit_key(results[k]) = key}
    IN IF stored = {} THEN <<>> ELSE <<results[CHOOSE k \in stored : \A other \in stored : other <= k]>>

\* LLMFitStage.run: replies[i] is what the model answers for profile i
LLMFitStageRun(input, replies, order) ==
    LET results == ScoreResults(input, replies, order)
        annotated == [i \in 1..Len(input) |->
                        LET fit == FitMapGet(results, _normalized_profile_key(input[i]))
                        IN IF fit # <<>>
                           THEN [input[i] EXCEPT !.fit_score = fit[1].score, !.fit_error = fit[1].error]
                           ELSE [input[i] EXCEPT !.fit_score = <<>>, !.fit_error = NONE]]
    IN SortByFit(annotated, <<>>)

\* variant: the filtered list is used even when it is empty
FilterBySuccessKeys_NoFallback(loaded, debug_success_keys) ==
    SelectSeq(loaded, LAMBDA profile : normalized_profile_key(profile) \in debug_success_keys)

\* llm_fit_stage._apply_brightdata_filter with the success_keys of the
\* persisted BRIGHTDATA document
FilterBySuccessKeys(loaded, debug_success_keys) ==
    LET success_keys == {Lower(key) : key \in debug_success_keys}
        filtered == SelectSeq(loaded, LAMBDA profile : normalized_profile_key(profile) \in success_keys)
    IN IF loaded = <<>> \/ success_keys = {} THEN loaded
       ELSE IF filtered # <<>> THEN filtered ELSE loaded

StagesOthers == <<PipelineVars, norm, SweeperVars, runs, srch, enr, san, qe, scoring, dbg>>

\* the state after one more invocation returned
Invoked(returned) ==
    IF stg.pc = "loaded" THEN [stg EXCEPT !.pc = "once", !.first = returned]
    ELSE [stg EXCEPT !.pc = "twice", !.second = returned]

\* one invocation of the enrichment stage
InvokeBrightData(kinds) ==
    /\ stg.pc \in {"loaded", "once"}
    /\ stg.stage = BRIGHTDATA
    /\ stg' = [Invoked(BrightDataStageRun(stg.input, kinds)) EXCEPT !.loaded = stg.input]
    /\ UNCHANGED StagesOthers

\* one invocation of the fit-scoring stage
InvokeLLMFit(replies, order) ==
    /\ stg.pc \in {"loaded", "once"}
    /\ stg.stage = LLM_FIT
    \* the completion order shows only where two profiles share a key
    /\ order[1] # 1 => \E i, j \in 1..Len(stg.input) :
                         i # j /\ _normalized_profile_key(stg.input[i]) = _normalized_profile_key(stg.input[j])
    /\ LET profiles_in == FilterBySuccessKeys(stg.input, stg.success_keys)
       IN stg' = [Invoked(LLMFitStageRun(profiles_in, replies, order))
                     EXCEPT !.loaded = profiles_in,
                            !.replies = [i \in 1..Len(profiles_in) |-> replies[i]]]
    /\ UNCHANGED StagesOthers

\* one invocation of the rerank stage; responded = FALSE: RerankError
InvokeRerank(responded, scores) ==
    /\ stg.pc \in {"loaded", "once"}
    /\ stg.stage = RERANK
    /\ LET assigned == rerank_scores(stg.input, stg.top_k, scores)
           reordered == RerankStageRun(stg.input, stg.top_k, scores)
           returned == [i \in 1..Len(reordered) |->
                          IF i <= Len(assigned)
                          THEN [reordered[i] EXCEPT !.rerank_score = <<assigned[i]>>]
                          ELSE reordered[i]]
       IN stg' = [Invoked(IF responded THEN returned ELSE stg.input)
                     EXCEPT !.loaded = stg.input, !.responded = responded, !.scores = scores]
    /\ UNCHANGED StagesOthers

\* injective sequences: the profiles of a stage document
StageInputs ==
    {s \in SeqsUpTo(StageProfiles, MaxProfiles) : \A i, j \in 1..Len(s) : i # j => s[i] # s[j]}

\* the creator "alice" indexed a second time under another lance_db_id
AliceTwin ==
    [lance_db_id |-> "L2", account |-> "alice", username |-> "alice",
     profile_url |-> "", biography |-> "", followers |-> "0",
     following |-> NONE, posts_raw |-> NONE, profile_image_link |-> "",
     business_email |-> NONE, email_address |-> NONE, combined_score |-> 1,
     fit_score |-> <<>>, fit_error |-> NONE, rerank_score |-> <<>>]

\* inputs of the fit-scoring stage in which two profiles share an account
TwinInputs ==
    {s \in StageInputs : Len(s) = 1 /\ s[1].account = "alice"}
    \cup {<<s[1], AliceTwin>> : s \in {t \in StageInputs : Len(t) = 1 /\ t[1].account = "alice"}}
    \cup {<<AliceTwin, s[1]>> : s \in {t \in StageInputs : Len(t) = 1 /\ t[1].account = "alice"}}

\* success_keys of the persisted BRIGHTDATA document
SuccessKeySets == {{}, {"x.com/alice"}, {"X.com/Carol"}, {"https://instagram.com/nobody"}}

InitStages ==
    /\ PipelineAtRest
    /\ norm = NoNorm
    /\ SweeperAtRest
    /\ RunsAtRest
    /\ SearchAtRest
    /\ EnrichAtRest
    /\ SanitizeAtRest
    /\ ExpandAtRest
    /\ ScoringAtRest
    /\ DebugPairAtRest
    /\ \E stage \in {BRIGHTDATA, LLM_FIT, RERANK}, input \in StageInputs \cup TwinInputs,
          top_k \in TopKs, success_keys \in SuccessKeySets :
          /\ stage # LLM_FIT => input \in StageInputs
          /\ stage # RERANK => top_k = 200
          /\ stage # LLM_FIT => success_keys = {}
          /\ stg = [NoStages EXCEPT !.pc = "loaded", !.stage = stage, !.input = input,
                                    !.top_k = top_k, !.success_keys = success_keys]

\* the provider's answers and the model's replies, by position in the input
KindLists == [1..MaxProfiles -> RecordKinds]
ReplyLists == [1..MaxProfiles -> LLMReplies]

\* the order in which the scoring futures complete: input order or its
\* reverse, which puts every pair of results both ways round
CompletionOrders ==
    {[k \in 1..MaxProfiles |-> k], [k \in 1..MaxProfiles |-> MaxProfiles + 1 - k]}

NextStages ==
    \/ \E kinds \in KindLists : InvokeBrightData(kinds)
    \/ \E replies \in ReplyLists, order \in CompletionOrders : InvokeLLMFit(replies, order)
    \/ \E responded \in BOOLEAN, scores \in ScoreLists : InvokeRerank(responded, scores)

SpecStages == InitStages /\ [][NextStages]_vars

(***************************************************************************)
(* BrightDataStage.run step by step: url_map, the chunk loop with the      *)
(* client's trigger / status polls / download for each chunk, and the      *)
(* reconciliation of the returned records with the submitted profiles.     *)
(***************************************************************************)
\* profiles handed to the stage; the first two resolve to the same URL
EnrichProfiles ==
    {[lance_db_id |-> "L1", account |-> "alice", username |-> "alice",
      profile_url |-> "", biography |-> "bio", followers |-> "5",
      following |-> NONE, posts_raw |-> NONE, profile_image_link |-> "",
      business_email |-> NONE, email_address |-> NONE, combined_score |-> 2,
      fit_score |-> <<>>, fit_error |-> NONE],
     [lance_db_id |-> "L2", account |-> "", username |-> "",
      profile_url |-> "https://instagram.com/alice", biography |-> "", followers |-> "0",
      following |-> NONE, posts_raw |-> NONE, profile_image_link |-> "",
      business_email |-> NONE, email_address |-> NONE, combined_score |-> 1,
      fit_score |-> <<>>, fit_error |-> NONE],
     [lance_db_id |-> "L3", account |-> "bob", username |-> "bob",
      profile_url |-> "", biography |-> "", followers |-> "0",
      following |-> NONE, posts_raw |-> NONE, profile_image_link |-> "",
      business_email |-> NONE, email_address |-> NONE, combined_score |-> 1,
      fit_score |-> <<>>, fit_error |-> NONE],
     [lance_db_id |-> "L4", account |-> "", username |-> "",
      profile_url |-> "", biography |-> "", followers |-> "0",
      following |-> NONE, posts_raw |-> NONE, profile_image_link |-> "",
      business_email |-> NONE, email_address |-> NONE, combined_score |-> 1,
      fit_score |-> <<>>, fit_error |-> NONE]}

\* max_chunk_size or settings.BRIGHTDATA_MAX_URLS or 50, then max(1, int(configured))
_chunk_size(configured) == IF configured = 0 THEN 50 ELSE Max(1, configured)

RECURSIVE url_map(_, _, _)
\* url_map[url] = profile for each profile with a URL, as <<url, index>> pairs
\* in insertion order: a later profile with the same URL takes the entry over
url_map(input, i, acc) ==
    IF i > Len(input) THEN acc
    ELSE LET url == _profile_url(input[i])
             at == {k \in 1..Len(acc) : acc[k][1] = url}
         IN url_map(input, i + 1,
                IF url = NONE THEN acc
                ELSE IF at # {} THEN [k \in 1..Len(acc) |-> IF k \in at THEN <<url, i>> ELSE acc[k]]
                ELSE Append(acc, <<url, i>>))

\* the records appended to missing_records: one per profile without URL
missing_records(input) ==
    SelectSeq([i \in 1..Len(input) |->
                  [index |-> i, profile_url |-> NONE, account |-> input[i].account,
                   warning |-> IF _profile_url(input[i]) = NONE
                               THEN "missing_profile_url" ELSE NONE]],
              LAMBDA missing : missing.warning # NONE)

\* urls[idx : idx + chunk_size], idx counted from 0
ChunkUrls(urls, idx, size) == SubSeq(urls, idx + 1, Min(idx + size, Len(urls)))

\* chunk_number = idx // chunk_size + 1
chunk_number(idx, size) == (idx \div size) + 1

\* record_map.get(key): the last record with that key
RecordMapGet(records, key) ==
    LET at == {k \in 1..Len(records) : normalized_record_key(records[k]) = key}
    IN IF at = {} THEN <<>>
       ELSE <<records[CHOOSE k \in at : \A j \in at : j <= k]>>

\* the record the reconciliation loop finds for profile i, as a list of at most
\* one: profile i has to be the profile url_map holds for its URL
RecordOfProfile(e, i) ==
    LET held == {k \in 1..Len(e.url_map) : e.url_map[k][2] = i}
    IN IF held = {} THEN <<>>
       ELSE RecordMapGet(e.records, Lower(Strip(e.url_map[CHOOSE k \in held : TRUE][1])))

\* variant: only the profiles that were submitted are returned
ReturnedProfiles_SubmittedOnly(e) == SelectSeq(e.input, LAMBDA profile : _profile_url(profile) # NONE)

\* StageResult.profiles: the input list, each profile updated in place from its record
ReturnedProfiles(e) ==
    [i \in 1..Len(e.input) |->
        IF RecordOfProfile(e, i) = <<>> THEN e.input[i]
        ELSE _apply_record(e.input[i], RecordOfProfile(e, i)[1])]

\* the PROFILE_FAILED not_returned events, by profile index; sent only to a progress_cb
NotReturnedEvents(e) ==
    IF ~e.progress_cb THEN {}
    ELSE {e.url_map[k][2] : k \in {j \in 1..Len(e.url_map) : RecordOfProfile(e, e.url_map[j][2]) = <<>>}}

EnrichOthers == <<PipelineVars, norm, SweeperVars, runs, srch, stg, san, qe, scoring, dbg>>

\* run() up to the chunk loop
EnrichStart(input, configured, progress_cb) ==
    /\ enr.pc = "start"
    /\ LET map == url_map(input, 1, <<>>)
       IN enr' = [pc |-> IF input = <<>> \/ map = <<>> THEN "done" ELSE "trigger",
                  input |-> input, progress_cb |-> progress_cb,
                  chunk_size |-> _chunk_size(configured),
                  url_map |-> map,
                  urls |-> [k \in 1..Len(map) |-> map[k][1]],
                  missing |-> missing_records(input),
                  idx |-> 0, polls |-> 0, records |-> <<>>, debug_errors |-> <<>>,
                  calls |-> <<>>,
                  returned |-> input, not_returned |-> {}]
    /\ UNCHANGED EnrichOthers

\* the state after the chunk at idx is through: the next chunk, or the reconciliation
NextChunk(e) ==
    LET idx == e.idx + e.chunk_size
        done == idx >= Len(e.urls)
        after == [e EXCEPT !.idx = idx, !.polls = 0, !.pc = IF done THEN "done" ELSE "trigger"]
    IN IF done
       THEN [after EXCEPT !.returned = ReturnedProfiles(after),
                          !.not_returned = NotReturnedEvents(after)]
       ELSE after

\* variant: the exception of a chunk leaves run()
ChunkFailed_Raises(e) == [e EXCEPT !.pc = "raised"]

\* except Exception: debug_errors.append(f"chunk_{chunk_number}: {exc}"); continue
ChunkFailed(e) ==
    NextChunk([e EXCEPT !.debug_errors = Append(@, chunk_number(e.idx, e.chunk_size))])

\* one provider call of the chunk at idx, as logged
ProviderCall(e, op, answer) ==
    [op |-> op, chunk |-> chunk_number(e.idx, e.chunk_size), answer |-> answer,
     urls |-> ChunkUrls(e.urls, e.idx, e.chunk_size)]

\* trigger_snapshot: the POST succeeds and gives a snapshot_id, or raises
TriggerSnapshot(ok) ==
    /\ enr.pc = "trigger"
    /\ LET called == [enr EXCEPT !.calls = Append(@, ProviderCall(enr, "trigger", IF ok THEN "ok" ELSE "error"))]
       IN enr' = IF ok THEN [called EXCEPT !.pc = "poll"] ELSE ChunkFailed(called)
    /\ UNCHANGED EnrichOthers

\* what the status poll may answer; "error": the status request itself fails
SnapshotStatuses == {"ready", "failed", "running", "error"}

\* number of polls answered "running" that are followed for one snapshot
MaxPolls == 2

\* variant: a failed snapshot is downloaded as well
AfterStatus_DownloadsFailed(e, status) ==
    IF status \in {"ready", "failed"} THEN [e EXCEPT !.pc = "download"]
    ELSE IF status = "error" THEN ChunkFailed(e)
    ELSE [e EXCEPT !.polls = @ + 1]

\* wait_for_snapshot after one get_snapshot_status: return, raise, or sleep and poll again
AfterStatus(e, status) ==
    IF status = "ready" THEN [e EXCEPT !.pc = "download"]
    ELSE IF status \in {"failed", "error"} THEN ChunkFailed(e)
    ELSE [e EXCEPT !.polls = @ + 1]

\* one iteration of wait_for_snapshot's loop
PollStatus(status) ==
    /\ enr.pc = "poll"
    /\ status = "running" => enr.polls < MaxPolls
    /\ enr' = AfterStatus([enr EXCEPT !.calls = Append(@, ProviderCall(enr, "status", status))], status)
    /\ UNCHANGED EnrichOthers

\* download_snapshot: the rows of the snapshot (kinds[j] for the j-th URL of the
\* chunk), or the GET raises
DownloadSnapshot(ok, kinds) ==
    /\ enr.pc = "download"
    /\ LET called == [enr EXCEPT !.calls = Append(@, ProviderCall(enr, "download", IF ok THEN "ok" ELSE "error"))]
           chunk == ChunkUrls(enr.urls, enr.idx, enr.chunk_size)
           rows == SelectSeq([j \in 1..Len(chunk) |-> [kind |-> kinds[j], url |-> chunk[j]]],
                             LAMBDA row : row.kind # "none")
           chunk_records == [j \in 1..Len(rows) |-> ProviderRecord(rows[j].url, rows[j].kind)]
       IN enr' = IF ok THEN NextChunk([called EXCEPT !.records = @ \o chunk_records])
                 ELSE ChunkFailed(called)
    /\ UNCHANGED EnrichOthers

\* the profile lists handed to the stage
EnrichInputs ==
    {s \in SeqsUpTo(EnrichProfiles, MaxProfiles) : \A i, j \in 1..Len(s) : i # j => s[i] # s[j]}

\* max_chunk_size / BRIGHTDATA_MAX_URLS as configured
ConfiguredChunkSizes == {-1, 0, 1, 2}

InitEnrich ==
    /\ PipelineAtRest
    /\ norm = NoNorm
    /\ SweeperAtRest
    /\ RunsAtRest
    /\ SearchAtRest
    /\ StagesAtRest
    /\ SanitizeAtRest
    /\ ExpandAtRest
    /\ ScoringAtRest
    /\ DebugPairAtRest
    /\ enr = [pc |-> "start"]

NextEnrich ==
    \/ \E input \in EnrichInputs, configured \in ConfiguredChunkSizes, progress_cb \in BOOLEAN :
          EnrichStart(input, configured, progress_cb)
    \/ \E ok \in BOOLEAN : TriggerSnapshot(ok)
    \/ \E status \in SnapshotStatuses : PollStatus(status)
    \/ \E ok \in BOOLEAN, kinds \in KindLists : DownloadSnapshot(ok, kinds)

SpecEnrich == InitEnrich /\ [][NextEnrich]_vars

(***************************************************************************)
(* stage_utils.sanitize_debug_output.  A Python value is a record with its *)
(* type in t and its content in v: a str holds its characters, a list its  *)
(* items, a dict its entries [k, val] in insertion order.                  *)
(***************************************************************************)
_MAX_DEBUG_STRING_LENGTH == 500

_SENSITIVE_DEBUG_KEYS == {"api_key", "token", "authorization", "password", "secret"}

PyStr(chars) == [t |-> "str", v |-> chars]

PyInt(n) == [t |-> "int", v |-> <<n>>]

PyList(items) == [t |-> "list", v |-> items]

PyDict(entries) == [t |-> "dict", v |-> entries]

PyNone == [t |-> "none", v |-> <<>>]

\* "***redacted***"
REDACTED == PyStr(<<"*", "*", "*", "r", "e", "d", "a", "c", "t", "e", "d", "*", "*", "*">>)

\* "...truncated"
TRUNCATED == <<".", ".", ".", "t", "r", "u", "n", "c", "a", "t", "e", "d">>

\* bool(value) of a dict or None
PyTruthy(value) == value.t # "none" /\ value.v # <<>>

RECURSIVE _sanitize_ListsSkipped(_)
\* variant: lists are returned as they are
_sanitize_ListsSkipped(value) ==
    CASE value.t = "dict" ->
           PyDict([i \in 1..Len(value.v) |->
                     IF Lower(value.v[i].k) \in _SENSITIVE_DEBUG_KEYS
                     THEN [k |-> value.v[i].k, val |-> REDACTED]
                     ELSE [k |-> value.v[i].k, val |-> _sanitize_ListsSkipped(value.v[i].val)]])
      [] value.t = "str" /\ Len(value.v) > _MAX_DEBUG_STRING_LENGTH ->
           PyStr(SubSeq(value.v, 1, _MAX_DEBUG_STRING_LENGTH) \o TRUNCATED)
      [] OTHER -> value

RECURSIVE _sanitize(_)
\* the inner function of sanitize_debug_output
_sanitize(value) ==
    CASE value.t = "dict" ->
           PyDict([i \in 1..Len(value.v) |->
                     IF Lower(value.v[i].k) \in _SENSITIVE_DEBUG_KEYS
                     THEN [k |-> value.v[i].k, val |-> REDACTED]
                     ELSE [k |-> value.v[i].k, val |-> _sanitize(value.v[i].val)]])
      [] value.t = "list" ->
           PyList([i \in 1..Len(value.v) |-> _sanitize(value.v[i])])
      [] value.t = "str" /\ Len(value.v) > _MAX_DEBUG_STRING_LENGTH ->
           PyStr(SubSeq(value.v, 1, _MAX_DEBUG_STRING_LENGTH) \o TRUNCATED)
      [] OTHER -> value

\* `if not debug: return {}`, else _sanitize(deepcopy(debug))
sanitize_debug_output(debug) ==
    IF ~PyTruthy(debug) THEN PyDict(<<>>) ELSE _sanitize(debug)

SanitizeOthers == <<PipelineVars, norm, SweeperVars, runs, srch, stg, enr, qe, scoring, dbg>>

\* a stage hands its debug payload to sanitize_debug_output; debug is the
\* caller's object after the call (the function works on a deep copy)
Sanitize(debug) ==
    /\ san.pc = "idle"
    /\ san' = [pc |-> "once", original |-> debug, debug |-> debug,
               returned |-> sanitize_debug_output(debug), again |-> PyNone]
    /\ UNCHANGED SanitizeOthers

\* the sanitized payload is sanitized once more
SanitizeAgain ==
    /\ san.pc = "once"
    /\ san' = [san EXCEPT !.pc = "twice", !.again = sanitize_debug_output(san.returned)]
    /\ UNCHANGED SanitizeOthers

\* leaves of a debug payload: a short string, strings of 500 and 501
\* characters, a count
DebugLeaves ==
    {PyStr(<<"o", "k">>), PyStr([i \in 1.._MAX_DEBUG_STRING_LENGTH |-> "x"]),
     PyStr([i \in 1..(_MAX_DEBUG_STRING_LENGTH + 1) |-> "x"]), PyInt(3)}

DebugKeys == {"API_KEY", "token", "openai_api_key", "note"}

RECURSIVE DebugValues(_)
\* the values nested at most depth deep
DebugValues(depth) ==
    IF depth = 0 THEN DebugLeaves
    ELSE LET inner == DebugValues(depth - 1)
         IN inner
            \cup {PyList(<<value>>) : value \in inner}
            \cup {PyList(<<PyInt(3), value>>) : value \in inner}
            \cup {PyDict(<<[k |-> key, val |-> value]>>) : key \in DebugKeys, value \in inner}
            \cup {PyDict(<<[k |-> "note", val |-> value], [k |-> "token", val |-> value]>>) : value \in inner}

\* Optional[Dict[str, Any]]
DebugPayloads == {PyNone, PyDict(<<>>)} \cup {value \in DebugValues(MaxDepth) : value.t = "dict"}

InitSanitize ==
    /\ PipelineAtRest
    /\ norm = NoNorm
    /\ SweeperAtRest
    /\ RunsAtRest
    /\ SearchAtRest
    /\ StagesAtRest
    /\ EnrichAtRest
    /\ ExpandAtRest
    /\ ScoringAtRest
    /\ DebugPairAtRest
    /\ san = [pc |-> "idle"]

NextSanitize ==
    \/ \E debug \in DebugPayloads : Sanitize(debug)
    \/ SanitizeAgain

SpecSanitize == InitSanitize /\ [][NextSanitize]_vars

(***************************************************************************)
(* QueryExpansionService: the constructor's num_queries and                *)
(* generate_queries with its retry loop.  An LLM response is a record: the *)
(* call failed, the text is not JSON, the JSON is not an array, or it is   *)
(* an array with the given entries (NONE stands for a non-string entry).   *)
(***************************************************************************)
\* __init__: num_queries or 12, then forced to 12 from below and from above
sanitized_num(num_queries) ==
    LET given == IF num_queries = 0 THEN 12 ELSE num_queries
    IN IF given < 12 THEN 12 ELSE IF given > 12 THEN 12 ELSE given

RECURSIVE CleanEntries(_, _, _)
\* the loop over parsed: strings only, stripped, non-empty, first spelling of
\* each lower-cased text
CleanEntries(parsed, seen, cleaned) ==
    IF parsed = <<>> THEN cleaned
    ELSE LET entry == Head(parsed)
             text == Strip(entry)
         IN IF entry = NONE \/ text = "" \/ Lower(text) \in seen
            THEN CleanEntries(Tail(parsed), seen, cleaned)
            ELSE CleanEntries(Tail(parsed), seen \cup {Lower(text)}, Append(cleaned, text))

\* variant: three unique queries are enough, as the docstring has it
EnoughQueries_AtLeastThree(cleaned) == Len(cleaned) >= 3

\* `if len(cleaned) < 12: raise ValueError(...)`
EnoughQueries(cleaned) == Len(cleaned) >= 12

\* one pass of the try block: the error message raised, or "" and the list
\* returned
ParseResponse(response, num_queries) ==
    CASE response.kind = "call_error" -> [error |-> "OpenAI call failed", cleaned |-> <<>>]
      [] response.kind = "not_json" -> [error |-> "Expecting value", cleaned |-> <<>>]
      [] response.kind = "not_array" -> [error |-> "Response was not a JSON array", cleaned |-> <<>>]
      [] OTHER ->
           LET cleaned == CleanEntries(response.entries, {}, <<>>)
           IN IF ~EnoughQueries(cleaned)
              THEN [error |-> "Response must include at least 12 unique queries", cleaned |-> <<>>]
              ELSE [error |-> "", cleaned |-> SubSeq(cleaned, 1, Min(num_queries, Len(cleaned)))]

ExpandOthers == <<PipelineVars, norm, SweeperVars, runs, srch, stg, enr, san, scoring, dbg>>

\* generate_queries up to the loop: the blank inquiry raises ValueError
GenerateQueries(business_inquiry) ==
    /\ qe.pc = "idle"
    /\ qe' = IF Strip(business_inquiry) = ""
             THEN [qe EXCEPT !.pc = "raised"]
             ELSE [qe EXCEPT !.pc = "call", !.query = Strip(business_inquiry)]
    /\ UNCHANGED ExpandOthers

\* one iteration of `while attempts < 3`: the call, the parse, the return or
\* the except clause, and after the third failure the fallback return
Attempt(response) ==
    /\ qe.pc = "call"
    /\ qe.attempts < 3
    /\ LET attempts == qe.attempts + 1
           parsed == ParseResponse(response, qe.num_queries)
           called == [qe EXCEPT !.attempts = attempts, !.responses = Append(@, response)]
       IN qe' = IF parsed.error = ""
                THEN [called EXCEPT !.pc = "done", !.returned = parsed.cleaned]
                ELSE IF attempts < 3
                THEN [called EXCEPT !.last_error = parsed.error]
                ELSE [called EXCEPT !.pc = "done", !.last_error = parsed.error,
                                    !.returned = <<qe.query>>]
    /\ UNCHANGED ExpandOthers

\* twelve queries, thirteen, twelve with a respelled duplicate and a padded
\* entry, eleven unique among thirteen entries, and the short lists of the
\* unit tests
Twelve == <<"q1", "q2", "q3", "q4", "q5", "q6", "q7", "q8", "q9", "q10", "q11", "q12">>

LLMResponses ==
    {[kind |-> "call_error", entries |-> <<>>],
     [kind |-> "not_json", entries |-> <<>>],
     [kind |-> "not_array", entries |-> <<>>],
     [kind |-> "array", entries |-> Twelve],
     [kind |-> "array", entries |-> Append(Twelve, "q13")],
     [kind |-> "array", entries |-> <<"Q1", NONE, "q1", " ", "q2 ">> \o Tail(Tail(Twelve))],
     [kind |-> "array", entries |-> <<"Q1", "q1">> \o SubSeq(Twelve, 1, 11)],
     [kind |-> "array", entries |-> <<"q1", "q2", "q3">>],
     [kind |-> "array", entries |-> <<"q1", "q2", "q3", "q4", "q5">>],
     [kind |-> "array", entries |-> <<"Q1", "q1", "q1">>]}

\* num_queries given to the constructor; 0 stands for None
RequestedQueries == {0, 3, 12, 20}

InitExpand ==
    /\ PipelineAtRest
    /\ norm = NoNorm
    /\ SweeperAtRest
    /\ RunsAtRest
    /\ SearchAtRest
    /\ StagesAtRest
    /\ EnrichAtRest
    /\ SanitizeAtRest
    /\ ScoringAtRest
    /\ DebugPairAtRest
    /\ \E num_queries \in RequestedQueries :
          qe = [pc |-> "idle", requested |-> num_queries, num_queries |-> sanitized_num(num_queries),
                query |-> "", attempts |-> 0, last_error |-> NONE, responses |-> <<>>,
                returned |-> <<>>]

NextExpand ==
    \/ \E business_inquiry \in {" ", "brief", " brief "} : GenerateQueries(business_inquiry)
    \/ \E response \in LLMResponses : Attempt(response)

SpecExpand == InitExpand /\ [][NextExpand]_vars

(***************************************************************************)
(* ProfileFitAssessor.score_profiles: one _score_profile call per document *)
(* on the thread pool, each with its own attempt loop; results are         *)
(* collected in completion order.                                          *)
(***************************************************************************)
\* f"error: {last_error}"
ErrorRationale(last_error) ==
    CASE last_error = "timed out" -> "error: timed out"
      [] last_error = "Expecting value" -> "error: Expecting value"
      [] OTHER -> "error: None"

\* the ProfileFitResult of the attempt that parsed
FitSucceeded(document, answer) ==
    [account |-> document.account,
     score |-> IF answer.score # <<>> THEN <<Max(1, Min(10, answer.score[1]))>> ELSE <<>>,
     rationale |-> answer.rationale, error |-> NONE]

\* the ProfileFitResult after the loop
FitFailed(document, last_error) ==
    [account |-> document.account, score |-> <<>>,
     rationale |-> ErrorRationale(last_error), error |-> last_error]

\* future.result() of worker i appended to results; the pool is left when
\* every future has completed
Completed(f, i, fit_result) ==
    LET workers == [f.workers EXCEPT ![i].done = TRUE]
    IN [f EXCEPT !.workers = workers, !.results = Append(@, fit_result),
                 !.pc = IF \A w \in 1..Len(workers) : workers[w].done THEN "done" ELSE @]

\* variant: the exception of the third attempt leaves _score_profile
AttemptFailed_AbortsBatch(f, i, message) ==
    LET attempts == f.workers[i].attempts + 1
        failed == [f EXCEPT !.workers[i].attempts = attempts, !.workers[i].last_error = message]
    IN IF attempts < 3 THEN failed ELSE [failed EXCEPT !.pc = "raised"]

\* `except Exception`: attempts += 1, last_error = str(exc); the loop ends at
\* three
AttemptFailed(f, i, message) ==
    LET attempts == f.workers[i].attempts + 1
        failed == [f EXCEPT !.workers[i].attempts = attempts, !.workers[i].last_error = message]
    IN IF attempts < 3 THEN failed ELSE Completed(failed, i, FitFailed(f.documents[i], message))

ScoringOthers == <<PipelineVars, norm, SweeperVars, runs, srch, stg, enr, san, qe, dbg>>

\* score_profiles up to the submission of the futures
ScoreProfiles(documents) ==
    /\ scoring.pc = "idle"
    /\ scoring' = [pc |-> IF documents = <<>> THEN "done" ELSE "scoring",
               documents |-> documents,
               workers |-> [i \in 1..Len(documents) |->
                              [attempts |-> 0, last_error |-> NONE, calls |-> <<>>, done |-> FALSE]],
               results |-> <<>>]
    /\ UNCHANGED ScoringOthers

\* one pass of worker i through `while attempts < 3`: the call, and the
\* return or the except clause
CallOpenAI(i, answer) ==
    /\ scoring.pc = "scoring"
    /\ i <= Len(scoring.workers)
    /\ ~scoring.workers[i].done
    /\ scoring.workers[i].attempts < 3
    /\ LET called == [scoring EXCEPT !.workers[i].calls = Append(@, answer)]
       IN scoring' = IF answer.kind = "json"
                 THEN Completed(called, i, FitSucceeded(scoring.documents[i], answer))
                 ELSE AttemptFailed(called, i, answer.message)
    /\ UNCHANGED ScoringOthers

\* what one call gives: an exception, or a JSON object with its score
OpenAIAnswers ==
    {[kind |-> "error", message |-> "timed out", score |-> <<>>, rationale |-> ""],
     [kind |-> "error", message |-> "Expecting value", score |-> <<>>, rationale |-> ""],
     [kind |-> "json", message |-> "", score |-> <<11>>, rationale |-> "fits"],
     [kind |-> "json", message |-> "", score |-> <<>>, rationale |-> ""]}

ScoredAccounts == <<"alice", "bob", "carol">>

InitScoring ==
    /\ PipelineAtRest
    /\ norm = NoNorm
    /\ SweeperAtRest
    /\ RunsAtRest
    /\ SearchAtRest
    /\ StagesAtRest
    /\ EnrichAtRest
    /\ SanitizeAtRest
    /\ ExpandAtRest
    /\ DebugPairAtRest
    /\ scoring = [pc |-> "idle"]

NextScoring ==
    \/ \E n \in 0..MaxProfiles : ScoreProfiles([i \in 1..n |-> [account |-> ScoredAccounts[i]]])
    \/ \E i \in 1..MaxProfiles, answer \in OpenAIAnswers : CallOpenAI(i, answer)

SpecScoring == InitScoring /\ [][NextScoring]_vars

(***************************************************************************)
(* One enrichment result persisted by two invocations that differ only in  *)
(* debug_mode, each followed by the fit stage's load                       *)
(***************************************************************************)
DebugPairOthers == <<PipelineVars, norm, SweeperVars, runs, srch, stg, enr, san, qe, scoring>>

\* BrightDataStage.run's success_keys: the keys of the records that succeeded
RunSuccessKeys(input, succeeded) ==
    {normalized_profile_key(input[i]) : i \in succeeded} \ {NONE}

\* the two invocations, first with debug_mode on and then off, save the
\* same profiles and success keys of one run
SaveEnrichmentPair(input, succeeded) ==
    /\ dbg.pc = "idle"
    /\ succeeded \subseteq 1..Len(input)
    /\ LET success_keys == RunSuccessKeys(input, succeeded)
       IN dbg' = [dbg EXCEPT !.pc = "saved", !.profiles = input,
                             !.success_keys = success_keys,
                             !.saved = [debug_mode \in BOOLEAN |->
                                          PersistedSuccessKeys(debug_mode, success_keys)]]
    /\ UNCHANGED DebugPairOthers

\* execute_llm_fit_stage loads its profiles after each of the two
LoadFitPair ==
    /\ dbg.pc = "saved"
    /\ dbg' = [dbg EXCEPT !.pc = "loaded",
                          !.fit_input = [debug_mode \in BOOLEAN |->
                                           FilterBySuccessKeys(dbg.profiles, dbg.saved[debug_mode])]]
    /\ UNCHANGED DebugPairOthers

\* LLMFitStage.run of each of the two on what it loaded, the scoring service
\* giving the same reply for the same position
ScoreFitPair(replies) ==
    /\ dbg.pc = "loaded"
    /\ dbg' = [dbg EXCEPT !.pc = "scored",
                          !.fit_output = [debug_mode \in BOOLEAN |->
                                            LLMFitStageRun(dbg.fit_input[debug_mode], replies,
                                                           [k \in 1..MaxProfiles |-> k])]]
    /\ UNCHANGED DebugPairOthers

InitDebugPair ==
    /\ PipelineAtRest
    /\ norm = NoNorm
    /\ SweeperAtRest
    /\ RunsAtRest
    /\ SearchAtRest
    /\ StagesAtRest
    /\ EnrichAtRest
    /\ SanitizeAtRest
    /\ ExpandAtRest
    /\ ScoringAtRest
    /\ dbg = [NoDebugPair EXCEPT !.pc = "idle"]

NextDebugPair ==
    \/ \E input \in StageInputs, succeeded \in SUBSET (1..MaxProfiles) : SaveEnrichmentPair(input, succeeded)
    \/ LoadFitPair
    \/ \E replies \in ReplyLists : ScoreFitPair(replies)

SpecDebugPair == InitDebugPair /\ [][NextDebugPair]_vars

(***************************************************************************)
(* Properties                                                              *)
(***************************************************************************)
\* a RunPipeline invocation that passed the gate and has not returned yet
InRun == call = "orchestrator" /\ pc # "idle"

HasOp(log, e) == \E i \in 1..Len(log) : log[i] = e

\* the stage whose document the orchestrator names as input_stage
PreviousStage(stage) == IF stage = LLM_FIT THEN BRIGHTDATA ELSE SEARCH

\* C1: in a RunPipeline run, execute_brightdata_stage is invoked only after the
\* SEARCH stage document was saved and execute_llm_fit_stage only after the
\* BRIGHTDATA stage document was saved, and a stage that holds input profiles
\* read them from the previous stage's persisted document.
C1_StagesChainThroughPersistedDocuments ==
    call = "orchestrator" =>
        /\ \A i \in 1..Len(ops) :
              (ops[i][1] = "invoke" /\ ops[i][2] \in {BRIGHTDATA, LLM_FIT}) =>
                  \E j \in 1..(i - 1) : ops[j] = <<"save_completed", PreviousStage(ops[i][2])>>
        /\ (pc # "idle" /\ cur \in {BRIGHTDATA, LLM_FIT}) =>
              /\ stage_docs[PreviousStage(cur)].exists
              /\ stage_docs[PreviousStage(cur)].status = "completed"
              /\ req.input_stage = PreviousStage(cur)
        /\ (pc \in {"run", "save"} /\ cur \in {BRIGHTDATA, LLM_FIT}) =>
              /\ HasOp(ops, <<"read", PreviousStage(cur)>>)
              /\ profiles = IF cur = LLM_FIT
                            THEN _apply_brightdata_filter(stage_docs,
                                     stage_docs[BRIGHTDATA].profiles)
                            ELSE stage_docs[SEARCH].profiles

C1_Witness ==
    /\ call = "orchestrator"
    /\ cur = LLM_FIT
    /\ pc = "run"
    /\ Len(profiles) = MaxProfiles
    /\ HasOp(ops, <<"provider", BRIGHTDATA>>)

\* C2: when a stage raises during RunPipeline, the handler persists status
\* error with a message, the caller receives the error, the run ends without
\* invoking a later stage, and no step of the run changes the stage document
\* of a stage ranked before the one that is running.
C2_StageErrorHaltsRun ==
    [][InRun =>
          /\ \A s \in StageNames :
                stage_rank(s) < stage_rank(cur) => stage_docs'[s] = stage_docs[s]
          /\ pc = "raised" =>
                /\ status_doc'.status = "error"
                /\ status_doc'.error_message \notin {NONE, ""}
                /\ outcome' = raised.code
                /\ outcome' # "ok"
                /\ pc' = "idle"
                /\ \A s \in StageNames :
                      stage_rank(s) > stage_rank(cur) => ~HasOp(ops', <<"invoke", s>>)]_vars

C2_Witness ==
    /\ call = "orchestrator"
    /\ pc = "idle"
    /\ cur = LLM_FIT
    /\ outcome = "INTERNAL"
    /\ status_doc.status = "error"
    /\ stage_docs[SEARCH].status = "completed"
    /\ stage_docs[BRIGHTDATA].status = "completed"
    /\ stage_docs[LLM_FIT].status = "error"

\* C3: a run starts with status running, and inside the run the persisted
\* status changes only from running to completed or from running to error;
\* once error (or completed) is persisted no later write of the run changes it.
C3_StatusTransitions ==
    [][/\ (pc = "idle" /\ pc' # "idle" /\ call' = "orchestrator") =>
              status_doc'.status = "running"
       /\ InRun =>
              \/ status_doc'.status = status_doc.status
              \/ /\ status_doc.status = "running"
                 /\ status_doc'.status \in {"completed", "error"}]_vars

C3_Witness ==
    /\ call = "orchestrator"
    /\ pc = "idle"
    /\ status_doc.status = "error"
    /\ HasOp(ops, <<"status_error", BRIGHTDATA>>)
    /\ HasOp(ops, <<"status_error", NONE>>)

\* the stages up to and including the stop point, in order
StagesThrough(stop) == SubSeq(STAGE_ORDER, 1, stage_rank(stop) + 1)

\* C4: in a RunPipeline run with stop_at_stage = S no stage ranked after S is
\* invoked, reads, calls a provider or writes a document; a run that returns
\* ended with status completed and completed_stages equal to the stages up to
\* and including S; on a fresh pipeline id no document of a later stage exists.
C4_StopAtStage ==
    (call = "orchestrator" /\ stop_at # NONE) =>
        /\ \A i \in 1..Len(ops) :
              ops[i][2] \in StageNames => stage_rank(ops[i][2]) <= stage_rank(stop_at)
        /\ ncalls = 1 =>
              \A s \in StageNames :
                  stage_rank(s) > stage_rank(stop_at) => ~stage_docs[s].exists
        /\ (pc = "idle" /\ outcome = "ok") =>
              /\ status_doc.status = "completed"
              /\ status_doc.completed_stages = StagesThrough(stop_at)
              /\ result.completed_stages = StagesThrough(stop_at)
              /\ result.stage = stop_at

C4_Witness ==
    /\ call = "orchestrator"
    /\ stop_at = SEARCH
    /\ pc = "idle"
    /\ outcome = "ok"
    /\ ncalls = 1
    /\ stage_docs[SEARCH].status = "completed"
    /\ status_doc.completed_stages = <<"SEARCH">>

\* messages of the errors raised for a failed precondition
PreconditionMessages == {"pipeline_id is required", "stage document not found"}

\* C5: a stage invocation that fails a precondition (blank pipeline_id, empty
\* business_fit_query, missing input-stage document) leaves every stage
\* document and the status document as they were, has made no provider call
\* and no store write, and goes straight back to its caller (no retry).
C5_PreconditionFailureWritesNothing ==
    [][/\ (pc' = "raised" /\ raised'.message \in PreconditionMessages) =>
              /\ stage_docs' = stage_docs
              /\ status_doc' = status_doc
              /\ \A i \in 1..Len(ops') :
                    ops'[i][2] = cur' => ops'[i][1] \in {"invoke", "read"}
              /\ Cardinality({i \in 1..Len(ops') : ops'[i] = <<"invoke", cur'>>}) = 1
              /\ call' = "stage" =>
                    \A i \in 1..Len(ops') : ops'[i][1] \in {"invoke", "read"}
       /\ (pc = "idle" /\ pc' = "idle" /\ outcome' = "INVALID_ARGUMENT") =>
              /\ stage_docs' = stage_docs
              /\ status_doc' = status_doc
              /\ ops' = <<>>
       /\ (pc = "raised" /\ raised.message \in PreconditionMessages) =>
              /\ stage_docs' = stage_docs
              /\ pc' = "idle"
              /\ outcome' = raised.code]_vars

C5_Witness ==
    /\ call = "stage"
    /\ cur = LLM_FIT
    /\ pc = "idle"
    /\ outcome = "FAILED_PRECONDITION"
    /\ raised.message = "stage document not found"
    /\ ~stage_docs[LLM_FIT].exists

\* messages of the errors a stage aborts with after its preconditions held
StageFatalMessages ==
    {"Search engine is not initialized", "BrightData credentials are not configured",
     "BrightData client is not available", "Search stage execution failed",
     "BrightData stage execution failed", "LLM fit stage execution failed"}

\* C6: when a stage aborts with a stage-fatal error, a stage document with
\* status error exists for that stage and the pipeline status is error with
\* the message, standalone as well as inside RunPipeline.
C6_StageFatalRecorded ==
    (pc = "raised" /\ raised.message \in StageFatalMessages) =>
        /\ stage_docs[cur].exists
        /\ stage_docs[cur].status = "error"
        /\ status_doc.status = "error"
        /\ status_doc.error_message # NONE

\* the last stage a run with this stop point is configured to execute
FinalStage(stop) == IF stop = NONE THEN LLM_FIT ELSE stop

\* C7: inside a run the persisted overall_progress never decreases from one
\* status write to the next, and it is 100 only once the final configured
\* stage has completed.
C7_ProgressMonotone ==
    [][InRun =>
          /\ status_doc'.overall_progress >= status_doc.overall_progress
          /\ status_doc'.overall_progress = 100 =>
                HasOp(ops', <<"save_completed", FinalStage(stop_at)>>)]_vars

\* C8 as stated: the progress persisted when the stage at index i completes
\* is round(100*(i+1)/n).
C8_ProgressIsRounded ==
    (pc = "returned" /\ cur \in StageNames) =>
        /\ result.stage = cur
        /\ status_doc.overall_progress =
               RoundDiv(100 * (stage_rank(cur) + 1), Len(STAGE_ORDER))

\* C8 amended: the progress persisted when a stage completes is (i+1) times
\* the whole-number step floor(100/n), that is 33 for SEARCH and 66 for
\* BRIGHTDATA, and exactly 100 for the last stage LLM_FIT.
C8_ProgressIsStepped ==
    (pc = "returned" /\ cur \in StageNames) =>
        /\ result.stage = cur
        /\ status_doc.overall_progress =
               (CASE cur = SEARCH -> 33 [] cur = BRIGHTDATA -> 66 [] OTHER -> 100)

C8_Witness ==
    /\ pc = "returned"
    /\ cur = BRIGHTDATA
    /\ status_doc.overall_progress = 66
    /\ status_doc.current_stage = BRIGHTDATA

\* C9: after a RunPipeline run with stop_at_stage = SEARCH has finished, the
\* persisted overall_progress is the progress value of the SEARCH stage.
C9_EarlyStopProgress ==
    (call = "orchestrator" /\ pc = "idle" /\ outcome = "ok" /\ stop_at = SEARCH) =>
        status_doc.overall_progress = get_stage_progress(SEARCH)

\* no two entries are the same name up to case
NoDuplicates(s) == \A i, j \in 1..Len(s) : i # j => Upper(s[i]) # Upper(s[j])

\* entries appear in the order SEARCH < BRIGHTDATA < LLM_FIT, other names last
SortedByStageOrder(s) == \A i, j \in 1..Len(s) : i < j => OrderKey(s[i]) <= OrderKey(s[j])

WellFormedStages(s, stage) ==
    /\ NoDuplicates(s)
    /\ Contains(s, stage)
    /\ SortedByStageOrder(s)

\* C10: for every caller-supplied completed_stages list, the list a completing
\* stage persists in the status and the list it returns have no duplicates up
\* to case, contain the stage and are sorted by the stage order; normalizing
\* the persisted list again gives the same list.
C10_CompletedStagesNormalized ==
    /\ norm.pc \in {"completed", "renormalized"} =>
          /\ WellFormedStages(norm.persisted, norm.stage)
          /\ WellFormedStages(norm.returned, norm.stage)
    /\ norm.pc = "renormalized" => norm.again = norm.persisted

C10_Witness ==
    /\ norm.pc = "renormalized"
    /\ norm.existing = <<"llm_fit", "search", "SEARCH">>
    /\ norm.stage = "BRIGHTDATA"
    /\ norm.persisted = <<"SEARCH", "BRIGHTDATA", "LLM_FIT">>

\* C11: the sweeper deletes a document only if its ttl <= now (the run's
\* start_time): no step removes a document whose ttl is later than that.
C11_DeletesOnlyExpired ==
    [][\A d \in DocIds :
          (collection[d].exists /\ ~collection'[d].exists) =>
              collection[d].ttl <= sweep.start_time]_vars

\* C12: when a sweeper run is over, no delete failed in it and nothing was
\* written during it, no document whose ttl had elapsed at its start is left.
C12_ExpiredDocumentsSwept ==
    (sweep.pc = "done" /\ ~sweep.failed /\ ~sweep.written) =>
        \A d \in DocIds : collection[d].exists => ~(collection[d].ttl < sweep.start_time)

\* C13: two different runs never write the same document: they have different
\* pipeline ids, and no document of one has the id of a document of the other.
C13_RunsWriteDisjointDocuments ==
    \A r1, r2 \in RunIds :
        (r1 # r2 /\ runs[r1].pc # "idle" /\ runs[r2].pc # "idle") =>
            /\ runs[r1].pipeline_id # runs[r2].pipeline_id
            /\ runs[r1].written \cap runs[r2].written = {}

\* the last request was authenticated, or asked for debug_mode under the emulator
CallerAllowed == caller.auth # NONE \/ (caller.debug_mode /\ emulator)

\* the identity the entry points give such a request
CallerIdentity == IF caller.auth # NONE THEN caller.auth ELSE "test-user"

\* C14: at every entry point stage logic is invoked only for a request that is
\* authenticated or asks for debug_mode under the emulator, any other request
\* ends UNAUTHENTICATED, and the user id the accepted request runs with and
\* writes into the documents is the authenticated uid, or "test-user" in the
\* bypass case, never the user_id of the payload.
C14_AuthGate ==
    [][/\ (\E i \in 1..Len(ops') : ops'[i][1] = "invoke") => CallerAllowed'
       /\ (ncalls' > 0 /\ ~CallerAllowed') => outcome' = "UNAUTHENTICATED"
       /\ call' \in {"stage", "orchestrator"} =>
             /\ pc' # "idle" => req'.user_id = CallerIdentity'
             /\ status_doc' # status_doc => status_doc'.userId = CallerIdentity'
             /\ \A st \in DocStages :
                    stage_docs'[st] # stage_docs[st] => stage_docs'[st].userId = CallerIdentity'
      ]_vars

C14_Witness ==
    /\ caller = [auth |-> NONE, debug_mode |-> TRUE, user_id |-> "uid-x"]
    /\ emulator
    /\ cur = RERANK
    /\ pc = "returned"
    /\ stage_docs[RERANK].userId = "test-user"
    /\ status_doc.userId = "test-user"

\* C20: when the rerank endpoint call failed, with an error status or in
\* transport, the rerank stage still completes: nothing is raised, and the
\* result and the RERANK stage document hold the input list in its order.
C20_RerankFailureDegrades ==
    (HasOp(ops, <<"endpoint_failed", RERANK>>) /\ pc \notin {"run", "save"}) =>
        /\ raised = NoRaise
        /\ result.status = "completed"
        /\ result.profiles = profiles
        /\ stage_docs[RERANK].status = "completed"
        /\ stage_docs[RERANK].profiles = profiles

\* the dedup identity of a profile: lanceDbId if present, else the normalized
\* profileUrl, else the normalized account
DedupIdentity(profile) ==
    IF profile.lance_db_id # "" THEN profile.lance_db_id
    ELSE IF profile.profile_url # "" THEN Lower(Strip(profile.profile_url))
    ELSE Lower(Strip(profile.username))

\* C15: no two profiles of the list the search stage produces share a dedup
\* identity.
C15_SearchOutputDeduplicated ==
    srch.pc = "done" =>
        \A i, j \in 1..Len(srch.final) :
            i # j => DedupIdentity(srch.final[i]) # DedupIdentity(srch.final[j])

\* objects of the successful sub-searches that map to a profile with a key
KeyedContributions ==
    {o \in srch.contributed : o.mappable /\ dedupe_key(o) # ""}

\* C19: a failed embedding or sub-search never fails the search: the run is
\* not raised, every alpha of every embedded query is still searched, and the
\* result holds one profile for each key the successful sub-searches returned.
C19_SubSearchFailureTolerated ==
    /\ srch.degraded => srch.pc # "raised"
    /\ srch.pc = "done" =>
          /\ srch.attempted = {<<q, a>> : q \in srch.embedded, a \in Range(DEFAULT_ALPHA_VALUES)}
          /\ {dedupe_key(p) : p \in Range(srch.results)}
                 = {dedupe_key(o) : o \in KeyedContributions}
          /\ Range(srch.results) \subseteq KeyedContributions
          /\ Range(srch.final) \subseteq Range(srch.results)
          /\ Min(srch.limit, srch.top_n) >= Len(srch.results) => Range(srch.final) = Range(srch.results)

C19_Witness ==
    /\ srch.pc = "done"
    /\ srch.degraded
    /\ srch.embedded = {"q1"}
    /\ Len(srch.final) = 2

\* the profile fields the enrichment stage fills in
EnrichableFields ==
    {"biography", "followers", "following", "posts_raw", "profile_image_link",
     "profile_url", "business_email", "email_address"}

\* the outputs of the invocations made so far
Outputs ==
    CASE stg.pc = "once" -> {stg.first}
      [] stg.pc = "twice" -> {stg.first, stg.second}
      [] OTHER -> {}

\* C16: enrichment never replaces a non-empty value of an enrichable field by
\* an empty or null one.
C16_EnrichmentKeepsKnownValues ==
    stg.stage = BRIGHTDATA =>
        \A out \in Outputs : \A i \in 1..Len(stg.input) : \A f \in EnrichableFields :
            Truthy(stg.input[i][f]) => Truthy(out[i][f])

\* C17: after fit-scoring every output profile has an integer fit_score in
\* 1..10, or no fit_score and a fit_error.
C17_FitScoreBoundedOrError ==
    stg.stage = LLM_FIT =>
        \A out \in Outputs : \A i \in 1..Len(out) :
            \/ Len(out[i].fit_score) = 1 /\ out[i].fit_score[1] \in 1..10
            \/ out[i].fit_score = <<>> /\ out[i].fit_error # NONE

\* C18: two invocations of a stage on the same persisted input with the same
\* parameters return lists with the same members by dedup identity.
C18_SameMembershipTwice ==
    stg.pc = "twice" =>
        {DedupIdentity(p) : p \in Range(stg.first)} = {DedupIdentity(p) : p \in Range(stg.second)}

\* no URL can be derived: neither a profile_url nor a username or account
Underivable(profile) ==
    /\ ~Truthy(profile.profile_url) \/ Strip(profile.profile_url) = ""
    /\ ~Truthy(profile.username) \/ Strip(profile.username) = ""
    /\ ~Truthy(profile.account) \/ Strip(profile.account) = ""

\* the indexes of the profiles url_map holds
Submitted == {enr.url_map[k][2] : k \in 1..Len(enr.url_map)}

\* C21: the enrichment stage returns the input list, profile by profile in the
\* same order; a profile without derivable URL is not submitted, is returned
\* unmodified and has a missing_profile_url record.
C21_EnrichReturnsInputList ==
    enr.pc = "done" =>
        /\ Len(enr.returned) = Len(enr.input)
        /\ \A i \in 1..Len(enr.input) :
              /\ enr.returned[i].lance_db_id = enr.input[i].lance_db_id
              /\ Underivable(enr.input[i]) =>
                    /\ enr.returned[i] = enr.input[i]
                    /\ i \notin Submitted
                    /\ \E k \in 1..Len(enr.missing) :
                          /\ enr.missing[k].index = i
                          /\ enr.missing[k].warning = "missing_profile_url"

C21_Witness ==
    /\ enr.pc = "done"
    /\ Len(enr.input) = 2
    /\ Underivable(enr.input[1])
    /\ enr.returned[2] # enr.input[2]

\* the calls that trigger a snapshot, in the order made
Triggers == SelectSeq(enr.calls, LAMBDA c : c.op = "trigger")

\* the chunks a provider call failed for
FailedChunks == {enr.calls[k].chunk : k \in {j \in 1..Len(enr.calls) : enr.calls[j].answer \in {"error", "failed"}}}

\* C27: the URLs are submitted in consecutive chunks of at most the configured
\* size, each chunk once; a chunk that fails adds its number to the error list,
\* the later chunks are still submitted and the stage does not raise.
C27_ChunksIndependent ==
    /\ enr.pc # "raised"
    /\ enr.pc \notin {"off", "start"} =>
          /\ \A k \in 1..Len(Triggers) :
                /\ Triggers[k].chunk = k
                /\ Len(Triggers[k].urls) \in 1..enr.chunk_size
                /\ Triggers[k].urls = SubSeq(enr.urls, (k - 1) * enr.chunk_size + 1,
                                             Min(k * enr.chunk_size, Len(enr.urls)))
          /\ Range(enr.debug_errors) = FailedChunks
          /\ \A i, j \in 1..Len(enr.debug_errors) : i # j => enr.debug_errors[i] # enr.debug_errors[j]
          /\ enr.pc = "done" => Len(Triggers) * enr.chunk_size >= Len(enr.urls)

C27_Witness ==
    /\ enr.pc = "done"
    /\ enr.debug_errors = <<1>>
    /\ Len(Triggers) = 2
    /\ enr.records # <<>>

\* C28: per snapshot the calls are trigger, status polls, download; the download
\* follows a poll answered ready; a poll answered failed (or a failing status
\* request) ends the chunk with an error; any other answer is followed by
\* another poll.
C28_TriggerPollDownload ==
    enr.pc \notin {"off", "start"} =>
        \A k \in 1..Len(enr.calls) :
            LET c == enr.calls[k]
                last == k = Len(enr.calls)
            IN /\ c.op = "download" =>
                     /\ k > 1
                     /\ enr.calls[k - 1] = [c EXCEPT !.op = "status", !.answer = "ready"]
               /\ c.op = "status" =>
                     /\ k > 1
                     /\ enr.calls[k - 1] \in {[c EXCEPT !.op = "trigger", !.answer = "ok"],
                                              [c EXCEPT !.answer = "running"]}
                     /\ c.answer = "running" =>
                           IF last THEN enr.pc = "poll" ELSE enr.calls[k + 1].op = "status"
                     /\ c.answer = "ready" =>
                           IF last THEN enr.pc = "download" ELSE enr.calls[k + 1].op = "download"
                     /\ c.answer \in {"failed", "error"} =>
                           /\ c.chunk \in Range(enr.debug_errors)
                           /\ ~last => enr.calls[k + 1] = [op |-> "trigger", chunk |-> c.chunk + 1,
                                                           answer |-> enr.calls[k + 1].answer,
                                                           urls |-> enr.calls[k + 1].urls]
               /\ c.op = "trigger" => k = 1 \/ enr.calls[k - 1].chunk = c.chunk - 1

C28_Witness ==
    /\ enr.pc = "done"
    /\ \E k \in 1..Len(enr.calls) :
          /\ k + 4 <= Len(enr.calls)
          /\ enr.calls[k].op = "status" /\ enr.calls[k].answer = "failed"
          /\ enr.calls[k + 1].op = "trigger"
          /\ enr.calls[k + 2].answer = "running"
          /\ enr.calls[k + 3].answer = "ready"
          /\ enr.calls[k + 4].op = "download" /\ enr.calls[k + 4].answer = "ok"

\* C29: every profile with a derivable URL is either updated from a returned
\* record for its URL, or has a not_returned failure.
C29_SubmittedProfilesAccounted ==
    enr.pc = "done" =>
        \A i \in 1..Len(enr.input) :
            ~Underivable(enr.input[i]) =>
                \/ i \in enr.not_returned
                \/ \E k \in 1..Len(enr.records) :
                      /\ normalized_record_key(enr.records[k]) = Lower(Strip(_profile_url(enr.input[i])))
                      /\ enr.returned[i] = _apply_record(enr.input[i], enr.records[k])

\* the input-stage profiles whose key is among the success keys
SuccessSubset ==
    SelectSeq(stg.input, LAMBDA profile : \E key \in stg.success_keys : normalized_profile_key(profile) = Lower(key))

\* C22: fit-scoring gets the input-stage profiles whose key is a success key,
\* or the whole list when there are none; a non-empty list never becomes empty.
C22_FilterFallsBackToUnfiltered ==
    (stg.stage = LLM_FIT /\ stg.pc \in {"once", "twice"}) =>
        /\ stg.loaded = IF SuccessSubset = <<>> THEN stg.input ELSE SuccessSubset
        /\ stg.input # <<>> => stg.loaded # <<>>

C22_Witness ==
    /\ stg.stage = LLM_FIT
    /\ stg.pc = "twice"
    /\ Len(stg.input) = 2
    /\ Len(stg.loaded) = 1
    /\ stg.success_keys = {"X.com/Carol"}

\* C26: the search output has at most min(limit, top_n) profiles, in
\* non-increasing order of combined_score, all taken from the deduplicated
\* union, and no profile left out scores strictly higher than one returned.
C26_TopScoringWithinLimits ==
    srch.pc = "done" =>
        /\ Len(srch.final) <= Min(srch.limit, srch.top_n)
        /\ \A i \in 1..Len(srch.final), j \in 1..Len(srch.final) :
              i < j => srch.final[i].combined_score >= srch.final[j].combined_score
        /\ Range(srch.final) \subseteq Range(srch.results)
        /\ \A outside \in Range(srch.results) \ Range(srch.final), inside \in Range(srch.final) :
              outside.combined_score <= inside.combined_score

C26_Witness ==
    /\ srch.pc = "done"
    /\ srch.top_n = 1
    /\ srch.limit = 20
    /\ Len(srch.results) >= 2
    /\ Len(srch.final) = 1
    /\ srch.results[1].combined_score < srch.final[1].combined_score

RECURSIVE Scrubbed(_, _)
\* returned is value with every credential entry redacted and every long
\* string truncated, at every depth, and everything else as it was
Scrubbed(value, returned) ==
    /\ returned.t = value.t
    /\ CASE value.t = "dict" ->
              /\ Len(returned.v) = Len(value.v)
              /\ \A i \in 1..Len(value.v) :
                    /\ returned.v[i].k = value.v[i].k
                    /\ IF Lower(value.v[i].k) \in {"api_key", "token", "authorization", "password", "secret"}
                       THEN returned.v[i].val = REDACTED
                       ELSE Scrubbed(value.v[i].val, returned.v[i].val)
         [] value.t = "list" ->
              /\ Len(returned.v) = Len(value.v)
              /\ \A i \in 1..Len(value.v) : Scrubbed(value.v[i], returned.v[i])
         [] value.t = "str" ->
              IF Len(value.v) > 500
              THEN /\ Len(returned.v) = 500 + Len(TRUNCATED)
                   /\ SubSeq(returned.v, 1, 500) = SubSeq(value.v, 1, 500)
                   /\ SubSeq(returned.v, 501, Len(returned.v)) = TRUNCATED
              ELSE returned.v = value.v
         [] OTHER -> returned.v = value.v

FirstSpellings(entries) ==
    {i \in 1..Len(entries) :
        /\ entries[i] # NONE
        /\ Strip(entries[i]) # ""
        /\ \A j \in 1..(i - 1) :
              entries[j] = NONE \/ Lower(Strip(entries[j])) # Lower(Strip(entries[i]))}

\* the k-th unique query of a response
UniqueQuery(entries, k) ==
    Strip(entries[CHOOSE i \in FirstSpellings(entries) :
                      Cardinality({j \in FirstSpellings(entries) : j <= i}) = k])

\* the responses that are arrays with at least 12 unique non-empty queries
UsableResponse(response) ==
    response.kind = "array" /\ Cardinality(FirstSpellings(response.entries)) >= 12

C25_ThreeQueriesAccepted ==
    (qe.pc = "done" /\ qe.responses[1].kind = "array"
        /\ Cardinality(FirstSpellings(qe.responses[1].entries)) >= 3) =>
        LET requested == IF qe.requested = 0 THEN 12 ELSE qe.requested
            unique == Cardinality(FirstSpellings(qe.responses[1].entries))
        IN /\ Len(qe.responses) = 1
           /\ Len(qe.returned) = Min(requested, unique)
           /\ \A k \in 1..Len(qe.returned) : qe.returned[k] = UniqueQuery(qe.responses[1].entries, k)

\* the results returned for document i
ResultsOf(i) == {k \in 1..Len(scoring.results) : scoring.results[k].account = scoring.documents[i].account}

\* C30: at most 3 LLM calls per profile and one result per input profile; a
\* profile whose three calls all failed has score null, the last error and
\* "error: <last error>"; every other result follows from that profile's own
\* answer, and the batch is never aborted.
C30_ThreeCallsOneResultEach ==
    scoring.pc \notin {"off", "idle"} =>
        /\ scoring.pc # "raised"
        /\ \A i \in 1..Len(scoring.documents) : Len(scoring.workers[i].calls) <= 3
        /\ scoring.pc = "done" =>
              /\ Len(scoring.results) = Len(scoring.documents)
              /\ \A i \in 1..Len(scoring.documents) :
                    LET calls == scoring.workers[i].calls
                        last == calls[Len(calls)]
                    IN /\ Cardinality(ResultsOf(i)) = 1
                       /\ \A k \in ResultsOf(i) :
                             IF last.kind = "error"
                             THEN /\ Len(calls) = 3
                                  /\ scoring.results[k].score = <<>>
                                  /\ scoring.results[k].error = last.message
                                  /\ <<last.message, scoring.results[k].rationale>>
                                        \in {<<"timed out", "error: timed out">>,
                                             <<"Expecting value", "error: Expecting value">>}
                             ELSE /\ scoring.results[k].error = NONE
                                  /\ scoring.results[k].score = (IF last.score = <<>> THEN <<>> ELSE <<10>>)
                                  /\ scoring.results[k].rationale = last.rationale

C30_Witness ==
    /\ scoring.pc = "done"
    /\ Len(scoring.documents) = 2
    /\ Len(scoring.workers[1].calls) = 3
    /\ scoring.workers[1].calls[3].message = "Expecting value"
    /\ scoring.workers[1].calls[1].message = "timed out"
    /\ scoring.results[1].account = "bob"
    /\ scoring.results[1].score = <<10>>
    /\ scoring.results[2].error = "Expecting value"

\* what the latest invocation of the stage returned
LatestOutput == IF stg.pc = "once" THEN stg.first ELSE stg.second

\* a profile without the annotations of the fit-scoring stage
Unannotated(profile) == [profile EXCEPT !.fit_score = <<>>, !.fit_error = NONE]

\* C31: after fit-scoring every profile carries the score and error of the
\* result computed for that same profile, whatever the completion order.
C31_OwnFitResult ==
    (stg.stage = LLM_FIT /\ stg.pc \in {"once", "twice"}) =>
        \A i \in 1..Len(stg.loaded) :
            LET own == _score_profile(stg.loaded[i], stg.replies[i])
            IN \E k \in 1..Len(LatestOutput) :
                  /\ Unannotated(LatestOutput[k]) = Unannotated(stg.loaded[i])
                  /\ LatestOutput[k].fit_score = own.score
                  /\ LatestOutput[k].fit_error = own.error

\* the position in the list handed to the stage of a profile it returned
LoadedPosition(profile) ==
    CHOOSE i \in 1..Len(stg.loaded) : Unannotated(stg.loaded[i]) = Unannotated(profile)

\* (fit_score or 0, combined_score) as a pair
FitRank(profile) ==
    <<IF profile.fit_score = <<>> THEN 0 ELSE profile.fit_score[1], profile.combined_score>>

\* C32: fit-scoring returns a permutation of the profiles it was given,
\* ordered by (fit_score or 0, combined_score) descending, ties in input order.
C32_FitOutputSortedPermutation ==
    (stg.stage = LLM_FIT /\ stg.pc \in {"once", "twice"}) =>
        /\ Len(LatestOutput) = Len(stg.loaded)
        /\ \A i \in 1..Len(stg.loaded) :
              Cardinality({k \in 1..Len(LatestOutput) :
                              Unannotated(LatestOutput[k]) = Unannotated(stg.loaded[i])}) = 1
        /\ \A k \in 1..Len(LatestOutput), l \in 1..Len(LatestOutput) :
              k < l =>
                 LET a == FitRank(LatestOutput[k])
                     b == FitRank(LatestOutput[l])
                 IN /\ a[1] > b[1] \/ (a[1] = b[1] /\ a[2] >= b[2])
                    /\ a = b => LoadedPosition(LatestOutput[k]) < LoadedPosition(LatestOutput[l])

C32_Witness ==
    /\ stg.stage = LLM_FIT
    /\ stg.pc = "once"
    /\ Len(stg.loaded) = 2
    /\ stg.loaded[1].account = "bob"
    /\ stg.loaded[2].lance_db_id = "L4"
    /\ FitRank(stg.first[1]) = <<0, 1>>
    /\ FitRank(stg.first[2]) = <<0, 1>>
    /\ stg.first[1].account = "bob"

\* the positions of the response's ranking that name a candidate: the index is
\* inside the top-k subset and was not named before
NamedRanks ==
    LET k == Max(1, Min(stg.top_k, Len(stg.input)))
        ranking == rerank(stg.scores, k)
    IN {r \in 1..Len(ranking) :
           /\ 0 <= ranking[r] /\ ranking[r] < Min(k, Len(stg.input))
           /\ \A q \in 1..(r - 1) : ranking[q] # ranking[r]}

\* the (one-based) input position of the j-th candidate named
NamedInput(j) ==
    LET k == Max(1, Min(stg.top_k, Len(stg.input)))
        ranking == rerank(stg.scores, k)
    IN 1 + ranking[CHOOSE r \in NamedRanks : Cardinality({q \in NamedRanks : q <= r}) = j]

\* C33: rerank returns a permutation of its input: the candidates the response
\* names first, in response order and with rerank_score set, then every other
\* input profile, untouched and in input order.
C33_RerankedFirstThenRest ==
    (stg.stage = RERANK /\ stg.pc \in {"once", "twice"} /\ stg.responded) =>
        LET m == Cardinality(NamedRanks)
            named == {NamedInput(j) : j \in 1..m}
        IN /\ Len(LatestOutput) = Len(stg.input)
           /\ \A j \in 1..m :
                 LatestOutput[j] = [stg.input[NamedInput(j)]
                                       EXCEPT !.rerank_score = <<stg.scores[NamedInput(j)]>>]
           /\ \A i \in 1..Len(stg.input) :
                 i \notin named =>
                    LatestOutput[m + Cardinality({h \in 1..i : h \notin named})] = stg.input[i]

C33_Witness ==
    /\ stg.stage = RERANK
    /\ stg.pc = "once"
    /\ stg.responded
    /\ stg.top_k = 1
    /\ Len(stg.input) = 2
    /\ Len(stg.scores) = 3
    /\ stg.first[1].rerank_score = <<1>>
    /\ stg.first[2] = stg.input[2]

\* C34: a request rejected as UNAUTHENTICATED leaves the status document and
\* every stage document of the pipeline it names as they were.
C34_RejectedRequestWritesNothing ==
    [][(ncalls' = ncalls + 1 /\ outcome' = "UNAUTHENTICATED") =>
          /\ status_doc' = status_doc
          /\ stage_docs' = stage_docs]_vars

\* C35: the profiles the fit stage scores after an enrichment do not depend
\* on the debug_mode the enrichment was invoked with
C35_FitInputIgnoresDebugMode ==
    dbg.pc \in {"loaded", "scored"} => dbg.fit_input[TRUE] = dbg.fit_input[FALSE]

\* C36: a stage invocation that succeeds keeps, in the completed_stages of
\* the pipeline's status document, every stage recorded there before it
C36_CompletedStagesOnlyGrow ==
    [][(pc = "save" /\ pc' = "returned") =>
          Range(status_doc.completed_stages) \subseteq Range(status_doc'.completed_stages)]_vars

\* C37: no step of an invocation of the optional RERANK stage lowers the
\* persisted overall_progress or takes the status away from "completed"
C37_RerankKeepsProgress ==
    [][cur = RERANK =>
          /\ status_doc'.overall_progress >= status_doc.overall_progress
          /\ status_doc.status = "completed" => status_doc'.status = "completed"]_vars

\* C38: when a stage that completed before is invoked again and its run
\* fails, the stage document still holds the profiles of the completed run
C38_FailureKeepsProfiles ==
    [][(pc = "run" /\ pc' = "raised" /\ stage_docs[cur].status = "completed") =>
          stage_docs'[cur].profiles = stage_docs[cur].profiles]_vars

\* C39: when a _set_document call returns, the document it wrote exists and
\* carries the ttl of the call, whatever the sweeper did in between
C39_SetDocumentAlwaysLands ==
    [][(wr.pc = "got" /\ wr'.pc = "idle") =>
          /\ collection'[wr.doc].exists
          /\ collection'[wr.doc].ttl = wr.ttl]_vars

\* C40: every hit of a successful sub-search that maps to a profile with a
\* key is kept, or an earlier kept hit has its dedup identity (lanceDbId,
\* else profileUrl, else account)
C40_DroppedOnlyAsDuplicate ==
    \A o \in KeyedContributions :
        \E r \in Range(srch.results) : DedupIdentity(r) = DedupIdentity(o)

====
